---- MODULE Spec2Model ----
(***************************************************************************)
(* A model of package async (src/async/group.go): the Group that queues    *)
(* operations and runs them in goroutines under an optional concurrency    *)
(* cap (semCh), an optional timeout and an error policy (cancelOnErr).     *)
(*                                                                         *)
(* One action per step of a method of Group (the read of tm.disabled in    *)
(* Lock, the return of Lock, the load and the store of an assignment, the  *)
(* deferred Unlock), and one action per step of wait, of its two loops and *)
(* of each worker goroutine, so that every interleaving of the caller, the *)
(* launcher, the workers, the timer and the caller's cancellation is a     *)
(* behaviour of the model. g.funcs is kept as the three words of its slice *)
(* header and the arrays that append has allocated, and is read and        *)
(* written word by word. With locking enabled (SpecLock) the calls of      *)
(* other goroutines wait for the mutex; once SetLocking has switched it    *)
(* off (SpecRace) they run beside the caller's wait, a second Wait or      *)
(* WaitLax among them, and each step reads the fields of the Group as they *)
(* are at that step.                                                       *)
(*                                                                         *)
(* A second part models progress.Run/RunT and RunParallel/RunParallelT     *)
(* (src/progress/run.go) the same way: the call, its launch loop, its      *)
(* select loop, the goroutines that run fn, the timer, the caller's        *)
(* cancellation and the Tracker taken from the context.                    *)
(*                                                                         *)
(* A third part models spinner.Spinner (src/spinner/spinner.go): Start,    *)
(* Stop, and the goroutines of run with their select on stopChan.          *)
(***************************************************************************)
EXTENDS Integers, Sequences, FiniteSets

\* ------------------------------------------------------------------ bounds
\* Most operations queued before one Wait/WaitLax.
MaxOps == 2
\* Most Wait/WaitLax calls the caller makes on the one Group.
MaxWaits == 2
\* Largest argument given to SetMaxGoroutines.
MaxCap == 1

\* The calls of other goroutines that can be blocked on the mutex at a time.
MaxBlocked == 1
\* Most calls other goroutines make on the Group in all.
MaxOtherCalls == 1
\* Most operations of a batch beside which the calls of other goroutines are
\* followed.
MaxRacedOps == 1

\* Largest Count given to RunParallel/RunParallelT.
MaxCount == 2
\* Largest Concurrency given to RunParallel/RunParallelT.
MaxConcurrency == 2
\* Largest value of runtime.NumCPU().
MaxCPUs == 2
\* Most Start and Stop calls made on the one Spinner.
MaxCalls == 10

\* ------------------------------------------------------------ error values
\* The nil error, and the two errors of package context.
NilErr == "nil"
Canceled == "Canceled"
DeadlineExceeded == "DeadlineExceeded"

\* ------------------------------------------------------------- operations
\* A queued operation, func(context.Context) (T, error), is described by what
\* its body does:
\*   "ok"   returns (val, nil), whatever the state of its context;
\*   "err"  returns (val, err) with err non-nil;
\*   "ctx"  blocks until its context is done and returns (val, ctx.Err());
\*   "nil"  is no function: the call panics;
\*   "wild" is a word that is neither nil nor a function: the call is a fault
\*          that ends the program.
Ok(v) == [kind |-> "ok", val |-> v, err |-> NilErr]
Fail(e) == [kind |-> "err", val |-> -1, err |-> e]
Blocked == [kind |-> "ctx", val |-> -1, err |-> NilErr]

\* A nil element of an array of g.funcs: the zero value, which the elements of
\* a new array have until they are written. `g.funcs = append(g.funcs, f)`
\* stores the header of the grown slice in g.funcs before it writes f to the
\* new last element. The call of a nil function panics.
NilFn == [kind |-> "nil", val |-> 0, err |-> NilErr]

\* The error of the operation queued as the i-th, fmt.Errorf("error %d", i).
ErrorOf(i) == <<"error 1", "error 2", "error 3", "error 4", "error 5">>[i]

\* The operations the caller queues as the i-th of a batch: like those of
\* group_test.go, one that returns i, one that fails with "error i", and one
\* that waits for <-ctx.Done().
OpsAt(i) == {Ok(i), Fail(ErrorOf(i)), Blocked}

\* What a read behind the end of an array of g.funcs may give, the memory
\* there being whatever the program has put next to the array: nil, a word that
\* is no function ("wild"), the call of which is a fault at an address that is
\* not nil, or a function of the program: one that returns a value, one that
\* returns an error, or one that waits for its context.
Beyond ==
    {NilFn, [kind |-> "wild", val |-> 0, err |-> NilErr], Ok(0)} \cup OpsAt(1)

\* What a read of the element e gives: of an element behind the end of its
\* array ("behind"), any of Beyond, and as well the f that an append has
\* written there ("over") when nothing else has been written there since.
Taken(e) ==
    IF e.kind = "behind" THEN Beyond
    ELSE IF e.kind = "over" THEN Beyond \cup {e.f}
    ELSE {e}

\* The zero value of Result[T].
ZeroResult == [Value |-> 0, Err |-> NilErr, i |-> 0]

\* A nil channel: make was never called, or SetMaxGoroutines(n <= 0).
NilCh == [cap |-> 0, len |-> 0]

\* What Wait/WaitLax returned; call = "none" before any return is observed.
NoReturn ==
    [call |-> "none", vsNil |-> TRUE, vs |-> << >>, errKind |-> "nil",
     errs |-> << >>, rs |-> << >>]

\* A call of a method of Group that takes the mutex: the method, its argument,
\* whether toggleableMutex.Lock found the mutex enabled (locks), where the
\* call is (st: "lock", "body", "append", "elem", "unlock"), for Queue the
\* slice header that `append(g.funcs, f)` has made of the g.funcs it loaded
\* (ld: ptr, len, cap, and the words of g.funcs that the assignment writes),
\* and the words of g.funcs that were written by others since that (raced).
\* In Wait/WaitLax ld.ptr is the array that `range g.funcs` goes over.
Method(m, n, b, d, f) ==
    [m |-> m, n |-> n, b |-> b, d |-> d, f |-> f, locks |-> TRUE,
     st |-> "lock",
     ld |-> [ptr |-> 0, len |-> 0, cap |-> 0, words |-> {}], raced |-> {}]

\* No call of the caller is in progress.
NoCur == Method("none", 0, FALSE, 0, Blocked)

\* No Wait/WaitLax of another goroutine is in progress.
NoWait ==
    [ph |-> "none", lax |-> FALSE,
     runCtx |-> [kind |-> "caller", err |-> NilErr], li |-> 0, wk |-> << >>,
     resCh |-> << >>, resCap |-> 0, got |-> 0, size |-> 0,
     firstErr |-> NilErr, ld |-> NoCur.ld, raced |-> {}]

VARIABLES
    cancelOnErr,  \* Group.cancelOnErr
    timeout,      \* Group.timeout (a duration; > 0 means a timeout is set)
    semCh,        \* Group.semCh: [cap, len], cap = 0 is the nil channel
    hdr,          \* Group.funcs, the three words of the slice header: ptr
                  \* (an array of heap, 0 the nil pointer), len and cap
    heap,         \* the arrays that append has allocated for g.funcs and
                  \* that are still referred to: the elements of each
    mu,           \* Group.mu.mu: TRUE while the sync.Mutex is held
    disabled,     \* Group.mu.disabled
    pc,           \* where the caller is: "idle", in a method ("lock", "body",
                  \* "append", "elem", "unlock") or in "wait"; "panic" or
                  \* "fatal" once the program has crashed
    cur,          \* the caller's call in progress
    ph,           \* where wait is: "derive", "derive2", "make", "range",
                  \* "launch", "stuck", "test", "recv", "clear", "end";
                  \* else "none"
    lax,          \* wait's lax parameter
    ctx,          \* Err() of the caller's context
    runCtx,       \* wait's runCtx: [kind, err]
    li,           \* number of iterations done by wait's launch loop
    wk,           \* the goroutines of the batch: [st, f, Value, Err] per index
    resCh,        \* wait's resCh, the results sent and not yet received
    resCap,       \* the capacity resCh was made with
    recvd,        \* the results received by wait's second loop, in order
    results,      \* wait's results
    firstErr,     \* wait's firstErr
    ret,          \* what the last Wait/WaitLax returned
    late,         \* goroutines of earlier batches still to run their defer
    nWaits,       \* Wait/WaitLax calls the caller has started so far
    queued,       \* history: the operations the caller queued since its
                  \* last return
    sawDisabled,  \* history: a Lock or an Unlock found the mutex disabled
    ow,           \* the locals of the Wait/WaitLax of another goroutine
    waiting,      \* the calls of other goroutines that are in progress
    nOther,       \* calls other goroutines have made so far
    opts,         \* progress: the call made and its options once resolved
    fns,          \* what fn does in each of its invocations
    rpc,          \* "idle", "run" or "returned": where the call is
    parent,       \* Err() of the ctx given to Run/RunParallel
    tctx,         \* the ctx made by context.WithTimeout: [kind, err]
    tracker,      \* the Tracker in ctx: [active, i] and the calls it has seen
    gs,           \* the goroutines of the call: [st, f, t, err] and what
                  \* each saw when it called fn (afterStart, ctxAtBegin)
    resChT,       \* the call's resCh: results sent and not yet received
    semLen,       \* number of tokens in RunParallelT's semCh
    received,     \* iterations done by RunParallelT's second loop
    t,            \* RunParallelT's t
    errs,         \* RunParallelT's errs
    out,          \* what the call returned
    active,       \* spinner: Spinner.active
    stopChan,     \* number of tokens in Spinner.stopChan (capacity 1)
    smu,          \* TRUE while Stop holds Spinner.mu at its send to stopChan
    atSelect,     \* goroutines of run that are at the select, or asleep
    atLock,       \* goroutines of run that took default and are at s.mu.Lock()
    toGo,         \* Start calls that unlocked and have not yet run `go s.run()`
    nCalls        \* Start and Stop calls made so far

\* The variables of the Group and of the Wait/WaitLax call in progress.
groupVars ==
    <<cancelOnErr, timeout, semCh, hdr, heap, mu, disabled, pc, cur, ph,
      lax, ctx, runCtx, li, wk, resCh, resCap, recvd, results, firstErr, ret,
      late, nWaits, queued, sawDisabled, ow>>

\* The calls of other goroutines on the Group.
lockVars == <<waiting, nOther>>

\* The variables of a call of progress.Run/RunT/RunParallel/RunParallelT.
runVars ==
    <<opts, fns, rpc, parent, tctx, tracker, gs, resChT, semLen, received, t,
      errs, out>>

\* The variables of a spinner.Spinner and of its animation goroutines.
spinVars == <<active, stopChan, smu, atSelect, atLock, toGo, nCalls>>

\* The variables that no step of the Group's caller or goroutines changes.
otherVars == <<lockVars, runVars, spinVars>>

vars == <<groupVars, otherVars>>

\* The element i of the array a as it is in memory: through a nil pointer
\* there is none ("fault"), and behind the end of the array is other memory
\* ("behind").
Elem(a, i) ==
    IF a = 0 THEN [kind |-> "fault", val |-> 0, err |-> NilErr]
    ELSE IF i <= Len(heap[a]) THEN heap[a][i]
    ELSE [kind |-> "behind", val |-> 0, err |-> NilErr]

\* g.funcs: the len elements from ptr on.
funcs == [i \in 1..hdr.len |-> Elem(hdr.ptr, i)]

\* len(g.funcs).
N == hdr.len

\* ----------------------------------------------------------------- helpers
RECURSIVE CountSt(_, _)
\* Number of goroutines of the batch w whose state is in S.
CountSt(w, S) ==
    IF w = << >> THEN 0
    ELSE (IF Head(w).st \in S THEN 1 ELSE 0) + CountSt(Tail(w), S)

\* No call of package progress made yet; the mock tracker as newMockTracker
\* makes it, with the number of Start and Stop calls it has seen.
NoCall == [name |-> "none", Count |-> 0, Concurrency |-> 0,
           CancelOnError |-> FALSE, Timeout |-> 0]

NoOut == [tNil |-> TRUE, t |-> << >>, errKind |-> "nil", errs |-> << >>]

InitRun ==
    /\ opts = NoCall
    /\ fns = << >>
    /\ rpc = "idle"
    /\ parent = NilErr
    /\ tctx = [kind |-> "caller", err |-> NilErr]
    /\ tracker = [active |-> FALSE, i |-> 0, starts |-> 0, stops |-> 0]
    /\ gs = << >>
    /\ resChT = << >>
    /\ semLen = 0
    /\ received = 0
    /\ t = << >>
    /\ errs = << >>
    /\ out = NoOut

\* The Spinner as spinner.New makes it: not active, an empty stopChan.
InitSpin ==
    /\ active = FALSE
    /\ stopChan = 0
    /\ smu = FALSE
    /\ atSelect = 0
    /\ atLock = 0
    /\ toGo = 0
    /\ nCalls = 0

\* The zero value of Group: no max goroutines, no cancel on error, no timeout.
Init ==
    /\ cancelOnErr = FALSE
    /\ timeout = 0
    /\ semCh = NilCh
    /\ hdr = [ptr |-> 0, len |-> 0, cap |-> 0]
    /\ heap = << >>
    /\ mu = FALSE
    /\ disabled = FALSE
    /\ pc = "idle"
    /\ ph = "none"
    /\ lax = FALSE
    /\ ctx = NilErr
    /\ runCtx = [kind |-> "caller", err |-> NilErr]
    /\ li = 0
    /\ wk = << >>
    /\ resCh = << >>
    /\ resCap = 0
    /\ recvd = << >>
    /\ results = << >>
    /\ firstErr = NilErr
    /\ ret = NoReturn
    /\ late = 0
    /\ nWaits = 0
    /\ queued = << >>
    /\ sawDisabled = FALSE
    /\ ow = NoWait
    /\ cur = NoCur
    /\ waiting = << >>
    /\ nOther = 0
    /\ InitRun
    /\ InitSpin

\* A variant of CanLock for a Lock that never blocks.
CanLockDisabled(m, d) == TRUE

\* toggleableMutex.Lock returns: at once when the call found the mutex
\* disabled (d), and otherwise once the sync.Mutex is not held (m).
CanLock(m, d) == d \/ ~m

\* Group.mu.mu after toggleableMutex.Lock has returned.
Locked(m, d) == IF d THEN m ELSE TRUE

\* toggleableMutex.Unlock calls tm.mu.Unlock() on a sync.Mutex that is not
\* held: "fatal error: sync: unlock of unlocked mutex".
UnlockFatal(m, d) == ~d /\ ~m

\* Group.mu.mu after toggleableMutex.Unlock.
Unlocked(m, d) == IF d THEN m ELSE FALSE

\* The program has not crashed.
Running == pc \notin {"panic", "fatal"}

\* pc after a panic has unwound to the deferred g.mu.Unlock() of Wait/WaitLax:
\* the Unlock of a sync.Mutex that is not held is a fatal error.
Crashed(m, d) == IF UnlockFatal(m, d) THEN "fatal" ELSE "panic"

\* ------------------------------------------------------------ method calls
\* The call is one of Wait or WaitLax.
IsWait(c) == c.m \in {"Wait", "WaitLax"}

\* The caller can make a call: none of its calls is in progress. The model
\* follows at most MaxWaits rounds of configuring, queueing and waiting.
CanBegin == pc = "idle" /\ nWaits < MaxWaits

\* How many goroutines of the batch w may still run their deferred function
\* after the return: those that have sent their result, and any of those still
\* in their body for whose result resCh, ch of capacity c, has room.
Leftover(w, ch, c) ==
    {CountSt(w, {"defer"}) + j :
        j \in {k \in 0..CountSt(w, {"run"}) : k <= c - Len(ch)}}

\* The caller goes on after a return: the goroutines of the returned batch
\* that have not run their deferred function yet stay alive, and the returned
\* values are no longer looked at.
MoveOnWith(l) ==
    /\ late' = l
    /\ wk' = << >>
    /\ ret' = NoReturn
    /\ lax' = FALSE
    /\ ctx' = NilErr
    /\ runCtx' = [kind |-> "caller", err |-> NilErr]
    /\ li' = 0
    /\ recvd' = << >>
    /\ results' = << >>
    /\ resCh' = << >>
    /\ resCap' = 0
    /\ firstErr' = NilErr

MoveOn == \E l \in Leftover(wk, resCh, resCap) : MoveOnWith(late + l)

\* SetLocking writes g.mu.disabled and takes no lock.
SetLocking(enabled) ==
    /\ CanBegin
    /\ disabled' = ~enabled
    /\ MoveOn
    /\ UNCHANGED <<cancelOnErr, timeout, semCh, hdr, heap, mu, pc, cur, ph, nWaits,
                   queued, sawDisabled, ow>>
    /\ UNCHANGED otherVars

\* The caller calls the method of c and reaches g.mu.Lock(), where
\* toggleableMutex.Lock reads tm.disabled.
Enters(c) ==
    /\ CanBegin
    /\ cur' = [c EXCEPT !.locks = ~disabled]
    /\ sawDisabled' = (sawDisabled \/ disabled)
    /\ pc' = "lock"
    /\ MoveOn
    /\ UNCHANGED <<cancelOnErr, timeout, semCh, hdr, heap, mu, disabled, ph,
                   queued, ow>>
    /\ UNCHANGED otherVars

SetMaxGoroutines(n) ==
    /\ Enters(Method("SetMaxGoroutines", n, FALSE, 0, Blocked))
    /\ UNCHANGED nWaits

SetCancelOnError(b) ==
    /\ Enters(Method("SetCancelOnError", 0, b, 0, Blocked))
    /\ UNCHANGED nWaits

SetTimeout(d) ==
    /\ Enters(Method("SetTimeout", 0, FALSE, d, Blocked))
    /\ UNCHANGED nWaits

\* The most operations the caller queues for one wait: fewer once other
\* goroutines call the Group as well.
QueueRoom == IF nOther = 0 THEN MaxOps ELSE MaxRacedOps

Queue(f) ==
    /\ Len(funcs) < QueueRoom
    /\ Enters(Method("Queue", 0, FALSE, 0, f))
    /\ UNCHANGED nWaits

\* Wait(ctx) and WaitLax(ctx) up to g.mu.Lock().
WaitStart(isLax) ==
    /\ Enters(Method(IF isLax THEN "WaitLax" ELSE "Wait", 0, FALSE, 0, Blocked))
    /\ nWaits' = nWaits + 1

\* g.mu.Lock() returns in the caller's call. In Wait and WaitLax the call of
\* wait follows.
LockReturns ==
    /\ pc = "lock"
    /\ CanLock(mu, ~cur.locks)
    /\ mu' = Locked(mu, ~cur.locks)
    /\ IF IsWait(cur)
       THEN /\ pc' = "wait"
            /\ ph' = "derive"
            /\ lax' = (cur.m = "WaitLax")
       ELSE /\ pc' = "body"
            /\ UNCHANGED <<ph, lax>>
    /\ UNCHANGED <<cancelOnErr, timeout, semCh, hdr, heap, disabled, cur, ctx,
                   runCtx, li, wk, resCh, resCap, recvd, results, firstErr, ret,
                   late, nWaits, queued, sawDisabled, ow>>
    /\ UNCHANGED otherVars

\* A variant of ClearedQueue that leaves the queue as it is.
KeptQueue(h) ==
    [ptr |-> h.ptr, len |-> h.len, cap |-> h.cap,
     words |-> {"ptr", "len", "cap"}]

\* What `g.funcs = nil` stores in g.funcs: three zero words.
ClearedQueue(h) ==
    [ptr |-> 0, len |-> 0, cap |-> 0, words |-> {"ptr", "len", "cap"}]

\* The slice headers that the caller, the wait of another goroutine and the
\* calls of K are about to store in g.funcs: in Queue the one that append has
\* made, and at the end of wait nil.
CallerStores ==
    IF pc = "append" THEN {cur.ld}
    ELSE IF pc = "wait" /\ ph = "clear" THEN {ClearedQueue(hdr)}
    ELSE {}

OtherWaitStores == IF ow.ph = "clear" THEN {ClearedQueue(hdr)} ELSE {}

CallStores(K) == {waiting[k].ld : k \in {j \in K : waiting[j].st = "append"}}

\* What a read of g.funcs can give while the stores of S are under way, with
\* no lock held by both sides: the header is read and written word by word,
\* so that each word read is the one that is there or the one a store writes.
ReadFuncs(S) ==
    LET word(w) == {hdr[w]} \cup {s[w] : s \in {x \in S : w \in x.words}}
    IN  [ptr : word("ptr"), len : word("len"), cap : word("cap")]

\* g.funcs after the store of v by a call that found the words r written by
\* others since it made v: the store writes its words one by one, and each of
\* those of r may have been written before the other store wrote it.
Stored(v, r) ==
    LET word(w) == IF w \notin v.words THEN {hdr[w]}
                   ELSE IF w \in r THEN {hdr[w], v[w]}
                   ELSE {v[w]}
    IN  [ptr : word("ptr"), len : word("len"), cap : word("cap")]

\* The call or wait c, which is about to store in g.funcs when pending, once
\* another has stored v.
Overrun(c, pending, v) ==
    IF pending THEN [c EXCEPT !.raced = @ \cup v.words] ELSE c

\* The arrays of h that the header hd, the caller's call c, the calls w and
\* the wait o of other goroutines refer to: the others are garbage.
Swept(h, hd, c, w, o) ==
    LET R == ({hd.ptr, c.ld.ptr, o.ld.ptr}
              \cup {w[k].ld.ptr : k \in 1..Len(w)}) \ {0}
        m == IF R = {} THEN 0 ELSE CHOOSE a \in R : \A b \in R : b <= a
    IN  [a \in 1..m |-> IF a \in R THEN h[a] ELSE << >>]

\* The elements that append copies from the slice h it has loaded: each as a
\* read of it gives it.
Copy(h) ==
    {c \in [1..h.len -> UNION {Taken(Elem(h.ptr, i)) : i \in 1..h.len}] :
        \A i \in 1..h.len : c[i] \in Taken(Elem(h.ptr, i))}

\* The capacity of the array that append allocates for n elements when the
\* slice it has loaded has the capacity c: twice c, or n when that is more,
\* rounded up to a size that the allocator has.
GrownCap(n, c) ==
    LET m == IF n > c + c THEN n ELSE c + c
    IN  IF m > 4 /\ m % 2 = 1 THEN m + 1 ELSE m

\* `append(g.funcs, f)` up to the store of the header, for the slice h that has
\* been loaded: with room in the array of h the slice made is one longer on
\* that array, and the assignment writes its len only; else the slice is on a
\* new array that holds a copy of the elements, nil elements after them, and
\* the assignment writes cap, ptr and len. Each result is the header made (ld)
\* and the arrays there are then. The copy through a nil pointer faults: no
\* result.
Appended(h) ==
    IF h.len < h.cap
    THEN {[ld |-> [ptr |-> h.ptr, len |-> h.len + 1, cap |-> h.cap,
                   words |-> {"len"}],
           heap |-> heap]}
    ELSE IF h.ptr = 0 /\ h.len > 0 THEN {}
    ELSE LET a == CHOOSE i \in 1..(Len(heap) + 1) :
                    /\ i = Len(heap) + 1 \/ heap[i] = << >>
                    /\ \A j \in 1..(i - 1) : heap[j] # << >>
             c == GrownCap(h.len + 1, h.cap)
         IN  {[ld |-> [ptr |-> a, len |-> h.len + 1, cap |-> c,
                       words |-> {"ptr", "len", "cap"}],
               heap |-> [i \in 1..(IF a > Len(heap) THEN a ELSE Len(heap)) |->
                            IF i # a THEN heap[i]
                            ELSE [j \in 1..c |->
                                    IF j <= h.len THEN old[j] ELSE NilFn]]] :
              old \in Copy(h)}

\* The arrays h once f is written to the last element of the slice ld. A
\* slice made of the words of two headers can be longer than its array: the
\* write then goes behind the end of the array, to memory that is not the
\* array's ("over").
Fill(h, ld, f) ==
    LET a == h[ld.ptr]
        behind == [kind |-> "behind", val |-> 0, err |-> NilErr]
        over == [kind |-> "over", val |-> 0, err |-> NilErr, f |-> f]
    IN  [h EXCEPT ![ld.ptr] =
            [i \in 1..(IF ld.len > Len(a) THEN ld.len ELSE Len(a)) |->
                IF i # ld.len THEN (IF i <= Len(a) THEN a[i] ELSE behind)
                ELSE IF i <= Len(a) /\ a[i].kind \notin {"behind", "over"}
                     THEN f
                     ELSE over]]

\* The batch b of a wait that has started l goroutines, once f is written to
\* the element s of the array it ranges over: the loop reads an element when
\* its iteration starts, which for the next goroutine may have been before the
\* write (early).
FillBatch(b, l, s, f, early) ==
    [i \in 1..Len(b) |->
        IF i = s /\ b[i].st = "new" /\ ~(early /\ i = l + 1)
        THEN [b[i] EXCEPT !.f = f]
        ELSE b[i]]

\* The load of g.funcs in `g.funcs = append(g.funcs, f)`, and append up to the
\* store of the header it makes. When append faults the deferred Unlock runs
\* while the panic unwinds.
QueueLoad ==
    /\ pc = "body"
    /\ cur.m = "Queue"
    /\ \E h \in ReadFuncs(OtherWaitStores
                            \cup CallStores(1..Len(waiting))) :
        IF Appended(h) = {}
        THEN /\ pc' = Crashed(mu, disabled)
             /\ mu' = Unlocked(mu, disabled)
             /\ UNCHANGED <<cur, heap>>
        ELSE /\ \E a \in Appended(h) :
                  /\ cur' = [cur EXCEPT !.ld = a.ld]
                  /\ heap' = a.heap
             /\ pc' = "append"
             /\ mu' = mu
    /\ UNCHANGED <<cancelOnErr, timeout, semCh, hdr, disabled, ph, lax,
                   ctx, runCtx, li, wk, resCh, resCap, recvd, results, firstErr,
                   ret, late, nWaits, queued, sawDisabled, ow>>
    /\ UNCHANGED otherVars

\* make(chan struct{}, n) for n > 0, nil otherwise.
NewSemCh(n) == IF n > 0 THEN [cap |-> n, len |-> 0] ELSE NilCh

\* A goroutine at `<-g.semCh` is left there for ever by `g.semCh = ...`: it
\* waits on the channel old, which is empty and which nobody reads from
\* g.semCh any more, or it has seen old in `g.semCh != nil` and then receives
\* from the nil channel that SetMaxGoroutines(n) with n <= 0 has put there.
MayStrandReceive(old, n) == old.cap > 0 /\ (old.len = 0 \/ n <= 0)

\* The launcher at `g.semCh <- struct{}{}` is left there for ever in the same
\* way: it waits on the channel old, which is full, or sends to nil.
MayStrandSend(old, n) == old.cap > 0 /\ (old.len = old.cap \/ n <= 0)

\* How many of k goroutines at their deferred function may be left there when
\* SetMaxGoroutines(n) replaces the channel old: the write of g.semCh and
\* their reads of it are not ordered.
Stranded(old, n, k) == IF MayStrandReceive(old, n) THEN 0..k ELSE {0}

\* The goroutines of the batch w that `g.semCh = ...` may leave at their
\* deferred receive: any of those that are there, when the receive can be
\* stranded.
StrandSets(old, n, w) ==
    IF MayStrandReceive(old, n)
    THEN SUBSET {i \in 1..Len(w) : w[i].st = "defer"}
    ELSE {{}}

\* The batch w with the goroutines of S left at their deferred receive.
Strand(w, S) ==
    [i \in 1..Len(w) |-> IF i \in S THEN [w[i] EXCEPT !.st = "leak"] ELSE w[i]]

\* The first loop of a wait at phase p, with l goroutines of the batch w
\* started, is at `if g.semCh != nil { g.semCh <- struct{}{} }`.
AtSend(p, l, w) == p = "launch" /\ l < Len(w)

\* `g.semCh = make(chan struct{}, n)` or `g.semCh = nil`, and what it does to
\* the goroutines that are at a channel operation on the g.semCh they read.
SemChWrite(n) ==
    /\ semCh' = NewSemCh(n)
    /\ \E j \in Stranded(semCh, n, late) : late' = late - j
    /\ \E S \in StrandSets(semCh, n, wk) : wk' = Strand(wk, S)
    /\ \E stuck \in BOOLEAN :
        /\ stuck => /\ pc = "wait"
                    /\ AtSend(ph, li, wk)
                    /\ MayStrandSend(semCh, n)
        /\ ph' = IF stuck THEN "stuck" ELSE ph
    /\ \E S \in StrandSets(semCh, n, ow.wk), stuck \in BOOLEAN :
        /\ stuck => /\ AtSend(ow.ph, ow.li, ow.wk)
                    /\ MayStrandSend(semCh, n)
        /\ ow' = [ow EXCEPT !.wk = Strand(ow.wk, S),
                            !.ph = IF stuck THEN "stuck" ELSE @]

\* The assignment of the method of c: g.semCh (45, 48), g.cancelOnErr (61),
\* g.timeout (69), or g.funcs (77) with the header that append has made: the
\* new element is written after it. A wait of another goroutine that is about
\* to store in g.funcs is overrun by a store in g.funcs.
Writes(c) ==
    /\ cancelOnErr' = IF c.m = "SetCancelOnError" THEN c.b ELSE cancelOnErr
    /\ timeout' = IF c.m = "SetTimeout" THEN c.d ELSE timeout
    /\ IF c.m = "Queue"
       THEN \E h \in Stored(c.ld, c.raced) : hdr' = h
       ELSE hdr' = hdr
    /\ IF c.m = "SetMaxGoroutines"
       THEN SemChWrite(c.n)
       ELSE /\ ow' = Overrun(ow, c.m = "Queue" /\ ow.ph = "clear", c.ld)
            /\ UNCHANGED <<semCh, late, wk, ph>>

\* The assignment in the caller's call.
Assign ==
    /\ \/ pc = "body" /\ cur.m # "Queue"
       \/ pc = "append"
    /\ Writes(cur)
    /\ pc' = IF cur.m = "Queue" THEN "elem" ELSE "unlock"
    /\ cur' = [cur EXCEPT !.raced = {}]
    /\ waiting' = [k \in 1..Len(waiting) |->
                    Overrun(waiting[k],
                            cur.m = "Queue" /\ waiting[k].st = "append",
                            cur.ld)]
    /\ heap' = Swept(heap, hdr', cur', waiting', ow')
    /\ UNCHANGED <<mu, disabled, lax, ctx, runCtx, li, resCh, resCap, recvd,
                   results, firstErr, ret, nWaits, queued, sawDisabled>>
    /\ UNCHANGED <<nOther, runVars, spinVars>>

\* The write of f to the new element in the caller's Queue, which ends
\* `g.funcs = append(g.funcs, f)`: it goes to the array of the slice that
\* append made, and reaches a wait that ranges over that array. Through a nil
\* pointer the write faults.
AssignElem ==
    /\ pc = "elem"
    /\ IF cur.ld.ptr = 0
       THEN /\ pc' = Crashed(mu, disabled)
            /\ mu' = Unlocked(mu, disabled)
            /\ UNCHANGED <<cur, heap, queued, ow>>
       ELSE /\ cur' = [cur EXCEPT !.ld = NoCur.ld]
            /\ heap' = Swept(Fill(heap, cur.ld, cur.f), hdr, cur', waiting, ow)
            /\ queued' = Append(queued, cur.f)
            /\ \E early \in BOOLEAN :
                ow' = [ow EXCEPT
                        !.wk = IF ow.ld.ptr = cur.ld.ptr
                               THEN FillBatch(@, ow.li, cur.ld.len,
                                              heap'[cur.ld.ptr][cur.ld.len],
                                              early)
                               ELSE @]
            /\ pc' = "unlock"
            /\ mu' = mu
    /\ UNCHANGED <<cancelOnErr, timeout, semCh, hdr, disabled, ph, lax, ctx,
                   runCtx, li, wk, resCh, resCap, recvd, results, firstErr, ret,
                   late, nWaits, sawDisabled>>
    /\ UNCHANGED otherVars

\* The deferred g.mu.Unlock() of the caller's call, which reads tm.disabled.
UnlockReturns ==
    /\ pc = "unlock"
    /\ mu' = Unlocked(mu, disabled)
    /\ sawDisabled' = (sawDisabled \/ disabled)
    /\ pc' = IF UnlockFatal(mu, disabled) THEN "fatal" ELSE "idle"
    /\ cur' = NoCur
    /\ UNCHANGED <<cancelOnErr, timeout, semCh, hdr, heap, disabled, ph, lax, ctx,
                   runCtx, li, wk, resCh, resCap, recvd, results, firstErr, ret,
                   late, nWaits, queued, ow>>
    /\ UNCHANGED otherVars

\* ------------------------------------------------------------------- wait
\* runCtx as wait derives it from the caller's context.
DeriveCtx(to, coe, parentErr) ==
    [kind |-> IF to > 0 THEN "timeout" ELSE IF coe THEN "cancel" ELSE "caller",
     err |-> parentErr]

\* `runCtx := ctx` and `if g.timeout > 0 { ... }`.
Derive ==
    /\ pc = "wait"
    /\ ph = "derive"
    /\ runCtx' = DeriveCtx(timeout, FALSE, ctx)
    /\ ph' = IF timeout > 0 THEN "make" ELSE "derive2"
    /\ UNCHANGED <<cancelOnErr, timeout, semCh, hdr, heap, mu, disabled, pc, cur,
                   lax, ctx, li, wk, resCh, resCap, recvd, results, firstErr,
                   ret, late, nWaits, queued, sawDisabled, ow>>
    /\ UNCHANGED otherVars

\* `else if g.cancelOnErr { ... }`, reached when g.timeout was not positive.
Derive2 ==
    /\ pc = "wait"
    /\ ph = "derive2"
    /\ runCtx' = DeriveCtx(0, cancelOnErr, ctx)
    /\ ph' = "make"
    /\ UNCHANGED <<cancelOnErr, timeout, semCh, hdr, heap, mu, disabled, pc, cur,
                   lax, ctx, li, wk, resCh, resCap, recvd, results, firstErr,
                   ret, late, nWaits, queued, sawDisabled, ow>>
    /\ UNCHANGED otherVars

\* `resCh := make(chan Result[T], len(g.funcs))`.
MakeResCh ==
    /\ pc = "wait"
    /\ ph = "make"
    /\ resCap' = N
    /\ ph' = "range"
    /\ UNCHANGED <<cancelOnErr, timeout, semCh, hdr, heap, mu, disabled, pc, cur,
                   lax, ctx, runCtx, li, wk, resCh, recvd, results, firstErr,
                   ret, late, nWaits, queued, sawDisabled, ow>>
    /\ UNCHANGED otherVars

\* A context after its cancel function is called: the first cancellation stays.
Cancel(c) == IF c.err = NilErr THEN [c EXCEPT !.err = Canceled] ELSE c

\* wait derived no context of its own, so that its cancel is nil.
CancelIsNil(c) == c.kind = "caller"

\* runCtx after the deferred cancel(), which is there when cancel is not nil.
DeferredCancel(c) == IF CancelIsNil(c) THEN c ELSE Cancel(c)

\* The goroutines to be started for the elements of the slice h.
Batch(h) ==
    [i \in 1..h.len |-> [st |-> "new", f |-> Elem(h.ptr, i), Value |-> 0,
                         Err |-> NilErr]]

\* `range g.funcs` takes the slice the first loop of wait goes over; a
\* goroutine is to be started for each of its elements, which the loop reads
\* one by one. With a nil pointer and a length that is not 0 the loop faults
\* when it reads the first element, before any goroutine is started, and the
\* deferred cancel and Unlock run while the panic unwinds.
RangeStart ==
    /\ pc = "wait"
    /\ ph = "range"
    /\ \E h \in ReadFuncs(OtherWaitStores
                            \cup CallStores(1..Len(waiting))) :
        IF h.ptr = 0 /\ h.len > 0
        THEN /\ pc' = Crashed(mu, disabled)
             /\ mu' = Unlocked(mu, disabled)
             /\ runCtx' = DeferredCancel(runCtx)
             /\ UNCHANGED <<ph, wk, cur>>
        ELSE /\ ph' = "launch"
             /\ wk' = Batch(h)
             /\ cur' = [cur EXCEPT !.ld.ptr = h.ptr]
             /\ UNCHANGED <<pc, mu, runCtx>>
    /\ UNCHANGED <<cancelOnErr, timeout, semCh, hdr, heap, disabled,
                   lax, ctx, li, resCh, resCap, recvd, results, firstErr,
                   ret, late, nWaits, queued, sawDisabled, ow>>
    /\ UNCHANGED otherVars

\* `g.semCh <- struct{}{}` can proceed: no cap, or a free slot.
CanAcquire(ch) == ch.cap = 0 \/ ch.len < ch.cap

\* g.semCh after `g.semCh <- struct{}{}`.
Acquire(ch) == IF ch.cap = 0 THEN ch ELSE [ch EXCEPT !.len = @ + 1]

\* One iteration of wait's first loop: read the element, acquire a slot, start
\* the goroutine.
Launch ==
    /\ pc = "wait"
    /\ AtSend(ph, li, wk)
    /\ CanAcquire(semCh)
    /\ semCh' = Acquire(semCh)
    /\ li' = li + 1
    /\ \E f \in Taken(wk[li + 1].f) :
        wk' = [wk EXCEPT ![li + 1].st = "run", ![li + 1].f = f]
    /\ UNCHANGED <<cancelOnErr, timeout, hdr, heap, mu, disabled, pc, cur, ph,
                   lax, ctx, runCtx, resCh, resCap, recvd, results, firstErr,
                   ret, late, nWaits, queued, sawDisabled, ow>>
    /\ UNCHANGED otherVars

\* The body of f can return: a "ctx" body only once its context is done, and
\* the call of nil or of a word that is no function never.
CanReturn(f, c) ==
    f.kind \notin {"nil", "wild"} /\ (f.kind = "ctx" => c.err # NilErr)

\* (v, err) as f(runCtx) returns them.
BodyResult(f, c) ==
    IF f.kind = "ctx" THEN [Value |-> f.val, Err |-> c.err]
    ELSE [Value |-> f.val, Err |-> f.err]

\* `resCh <- ...` can proceed: resCh, made with capacity c, has room, or it
\* has no buffer and wait is at its `<-resCh`.
CanSend(ch, c, receiving) == Len(ch) < c \/ (c = 0 /\ ch = << >> /\ receiving)

\* wait is at the `<-resCh` of its second loop.
Receiving == pc = "wait" /\ ph = "recv"

\* `v, err := f(runCtx)` and `resCh <- Result[T]{v, err, i}` in goroutine i.
\* resCh was made with room for len(g.funcs) results: while the queue is not
\* changed during the wait the send never blocks and follows the return of the
\* body at once.
Finish(i) ==
    /\ Running
    /\ wk[i].st = "run"
    /\ CanReturn(wk[i].f, runCtx)
    /\ CanSend(resCh, resCap, Receiving)
    /\ LET r == BodyResult(wk[i].f, runCtx) IN
        /\ wk' = [wk EXCEPT ![i].st = "defer", ![i].Value = r.Value,
                            ![i].Err = r.Err]
        /\ resCh' = Append(resCh, [Value |-> r.Value, Err |-> r.Err, i |-> i])
    /\ UNCHANGED <<cancelOnErr, timeout, semCh, hdr, heap, mu, disabled, pc, cur, ph,
                   lax, ctx, runCtx, li, resCap, recvd, results, firstErr, ret,
                   late, nWaits, queued, sawDisabled, ow>>
    /\ UNCHANGED otherVars

\* The deferred function `if g.semCh != nil { <-g.semCh }` can run to its end:
\* it reads the g.semCh of the moment it runs, returns at once on a nil channel
\* and otherwise blocks until that channel holds a token.
CanRelease(ch) == ch.cap = 0 \/ ch.len > 0

\* A variant of Release for a deferred function that receives nothing.
ReleaseKeepsToken(ch) == ch

\* g.semCh after the deferred function.
Release(ch) == IF ch.cap = 0 THEN ch ELSE [ch EXCEPT !.len = @ - 1]

\* The deferred function of goroutine i, which ends the goroutine.
Defer(i) ==
    /\ Running
    /\ wk[i].st = "defer"
    /\ CanRelease(semCh)
    /\ semCh' = Release(semCh)
    /\ wk' = [wk EXCEPT ![i].st = "exit"]
    /\ UNCHANGED <<cancelOnErr, timeout, hdr, heap, mu, disabled, pc, cur, ph, lax,
                   ctx, runCtx, li, resCh, resCap, recvd, results, firstErr, ret,
                   late, nWaits, queued, sawDisabled, ow>>
    /\ UNCHANGED otherVars

\* The deferred function of a goroutine of an earlier batch: the Group may
\* have been given another semCh since the goroutine was started.
LateDefer ==
    /\ Running
    /\ late > 0
    /\ CanRelease(semCh)
    /\ semCh' = Release(semCh)
    /\ late' = late - 1
    /\ UNCHANGED <<cancelOnErr, timeout, hdr, heap, mu, disabled, pc, cur, ph, lax,
                   ctx, runCtx, li, wk, resCh, resCap, recvd, results, firstErr,
                   ret, nWaits, queued, sawDisabled, ow>>
    /\ UNCHANGED otherVars

\* A variant of Place that stores res in the first free slot, so that results
\* hold the results in the order of their arrival.
PlaceInArrivalOrder(rs, res) ==
    LET free == {k \in 1..Len(rs) : rs[k] = ZeroResult}
        slot == CHOOSE k \in free : \A m \in free : k <= m
    IN  [rs EXCEPT ![slot] = res]

\* results after `results[res.i] = res`.
Place(rs, res) == [rs EXCEPT ![res.i] = res]

\* `results[res.i] = res` panics: the index is out of range in a results that
\* was made for a shorter g.funcs than the one the first loop went over.
OutOfRange(size, res) == res.i > size

\* A variant of NextFirstErr without the `firstErr == nil` test: the last
\* error received stays.
NextLastErr(fe, res) == IF res.Err # NilErr THEN res.Err ELSE fe

\* firstErr after `if res.Err != nil && firstErr == nil { firstErr = res.Err }`.
NextFirstErr(fe, res) == IF res.Err # NilErr /\ fe = NilErr THEN res.Err ELSE fe

\* A variant of CallsCancel without the `!lax` test.
CallsCancelAlsoLax(fe, res, coe, isLax) ==
    res.Err # NilErr /\ fe = NilErr /\ coe

\* Whether the iteration that received res calls cancel().
CallsCancel(fe, res, coe, isLax) ==
    res.Err # NilErr /\ fe = NilErr /\ coe /\ ~isLax

\* A variant of LaunchOver for a second loop that runs beside the first.
LaunchOverAlways(l, n) == TRUE

\* wait's first loop, `for i, f := range g.funcs`, has ended after l
\* iterations over n functions, and the statements after it can run.
LaunchOver(l, n) == l = n

\* `results = make([]Result[T], len(g.funcs))`, once the first loop is over
\* and no longer refers to the array it went over.
MakeResults ==
    /\ pc = "wait"
    /\ ph = "launch"
    /\ LaunchOver(li, Len(wk))
    /\ ph' = "test"
    /\ results' = [i \in 1..N |-> ZeroResult]
    /\ cur' = [cur EXCEPT !.ld = NoCur.ld]
    /\ heap' = Swept(heap, hdr, cur', waiting, ow)
    /\ UNCHANGED <<cancelOnErr, timeout, semCh, hdr, mu, disabled, pc,
                   lax, ctx, runCtx, li, wk, resCh, resCap, recvd, firstErr, ret,
                   late, nWaits, queued, sawDisabled, ow>>
    /\ UNCHANGED otherVars

\* A variant of LoopDone that leaves the loop at the first result received.
LoopDoneAtFirst(n, got) == got >= n \/ got >= 1

\* wait's second loop is over: `i < len(g.funcs)` is false.
LoopDone(n, got) == got >= n

\* The test `i < len(g.funcs)` of wait's second loop, which reads the g.funcs
\* of the moment: the loop ends, or goes on to `<-resCh`.
LoopTest ==
    /\ pc = "wait"
    /\ ph = "test"
    /\ ph' = IF LoopDone(N, Len(recvd)) THEN "clear" ELSE "recv"
    /\ UNCHANGED <<cancelOnErr, timeout, semCh, hdr, heap, mu, disabled, pc, cur,
                   lax, ctx, runCtx, li, wk, resCh, resCap, recvd, results,
                   firstErr, ret, late, nWaits, queued, sawDisabled, ow>>
    /\ UNCHANGED otherVars

\* One iteration of wait's second loop from `<-resCh` on. cancel() on a nil
\* cancel, which needs g.cancelOnErr set during the wait, panics, and so does
\* an index out of the range of results; the deferred cancel and the deferred
\* Unlock of Wait/WaitLax run while the panic unwinds.
Collect ==
    /\ Receiving
    /\ resCh # << >>
    /\ LET res == Head(resCh) IN
        /\ resCh' = Tail(resCh)
        /\ recvd' = Append(recvd, res)
        /\ IF OutOfRange(Len(results), res)
           THEN /\ pc' = Crashed(mu, disabled)
                /\ mu' = Unlocked(mu, disabled)
                /\ runCtx' = DeferredCancel(runCtx)
                /\ UNCHANGED <<results, firstErr, ph>>
           ELSE /\ results' = Place(results, res)
                /\ firstErr' = NextFirstErr(firstErr, res)
                /\ IF CallsCancel(firstErr, res, cancelOnErr, lax)
                   THEN IF CancelIsNil(runCtx)
                        THEN /\ pc' = Crashed(mu, disabled)
                             /\ mu' = Unlocked(mu, disabled)
                             /\ UNCHANGED <<runCtx, ph>>
                        ELSE /\ runCtx' = Cancel(runCtx)
                             /\ ph' = "test"
                             /\ UNCHANGED <<pc, mu>>
                   ELSE /\ ph' = "test"
                        /\ UNCHANGED <<runCtx, pc, mu>>
    /\ UNCHANGED <<cancelOnErr, timeout, semCh, hdr, heap, disabled, cur, lax, ctx,
                   li, wk, resCap, ret, late, nWaits, queued, sawDisabled, ow>>
    /\ UNCHANGED otherVars

\* The timer of context.WithTimeout fires.
TimeoutElapse ==
    /\ pc = "wait"
    /\ runCtx.kind = "timeout"
    /\ runCtx.err = NilErr
    /\ runCtx' = [runCtx EXCEPT !.err = DeadlineExceeded]
    /\ UNCHANGED <<cancelOnErr, timeout, semCh, hdr, heap, mu, disabled, pc, cur, ph,
                   lax, ctx, li, wk, resCh, resCap, recvd, results, firstErr,
                   ret, late, nWaits, queued, sawDisabled, ow>>
    /\ UNCHANGED otherVars

\* A variant of Inherit for a runCtx that WithTimeout and WithCancel derive
\* from context.Background() and not from ctx.
InheritUnlessDerived(c) == IF c.kind = "caller" THEN Cancel(c) ELSE c

\* runCtx after the caller's context is cancelled: runCtx is ctx itself, or
\* derived from it by WithTimeout or WithCancel, and is cancelled with it.
Inherit(c) == Cancel(c)

\* The caller cancels the context it gave to Wait/WaitLax.
CallerCancel ==
    /\ pc = "wait"
    /\ ctx = NilErr
    /\ ctx' = Canceled
    /\ runCtx' = Inherit(runCtx)
    /\ UNCHANGED <<cancelOnErr, timeout, semCh, hdr, heap, mu, disabled, pc, cur, ph,
                   lax, li, wk, resCh, resCap, recvd, results, firstErr, ret,
                   late, nWaits, queued, sawDisabled, ow>>
    /\ UNCHANGED otherVars

RECURSIVE ErrListFirstOnly(_)
\* A variant of ErrList that stops at the first error it finds.
ErrListFirstOnly(rs) ==
    IF rs = << >> THEN << >>
    ELSE IF Head(rs).Err # NilErr THEN <<Head(rs).Err>>
    ELSE ErrListFirstOnly(Tail(rs))

RECURSIVE ErrListReversed(_)
\* A variant of ErrList that puts each error in front of those found so far.
ErrListReversed(rs) ==
    IF rs = << >> THEN << >>
    ELSE ErrListReversed(Tail(rs))
         \o (IF Head(rs).Err # NilErr THEN <<Head(rs).Err>> ELSE << >>)

RECURSIVE ErrList(_)
\* `for _, r := range rs { if r.Err != nil { errs = append(errs, r.Err) } }`
ErrList(rs) ==
    IF rs = << >> THEN << >>
    ELSE (IF Head(rs).Err # NilErr THEN <<Head(rs).Err>> ELSE << >>)
         \o ErrList(Tail(rs))

\* `vs[i] = r.Value` for every r of rs.
Values(rs) == [i \in 1..Len(rs) |-> rs[i].Value]

\* A variant of WaitOutcome without the `if g.cancelOnErr` return: an
\* errors.List under both policies.
WaitOutcomeAlwaysList(rs, fe, coe) ==
    IF fe # NilErr
    THEN [call |-> "Wait", vsNil |-> TRUE, vs |-> << >>,
          errKind |-> "list", errs |-> ErrList(rs), rs |-> << >>]
    ELSE [call |-> "Wait", vsNil |-> FALSE, vs |-> Values(rs),
          errKind |-> "nil", errs |-> << >>, rs |-> << >>]

\* A variant of WaitOutcome that builds vs before it looks at firstErr and
\* returns it beside the error.
WaitOutcomeKeepsValues(rs, fe, coe) ==
    IF fe # NilErr
    THEN IF coe
         THEN [call |-> "Wait", vsNil |-> FALSE, vs |-> Values(rs),
               errKind |-> "single", errs |-> <<fe>>, rs |-> << >>]
         ELSE [call |-> "Wait", vsNil |-> FALSE, vs |-> Values(rs),
               errKind |-> "list", errs |-> ErrList(rs), rs |-> << >>]
    ELSE [call |-> "Wait", vsNil |-> FALSE, vs |-> Values(rs),
          errKind |-> "nil", errs |-> << >>, rs |-> << >>]

\* What Wait returns from the (rs, firstErr) of wait.
WaitOutcome(rs, fe, coe) ==
    IF fe # NilErr
    THEN IF coe
         THEN [call |-> "Wait", vsNil |-> TRUE, vs |-> << >>,
               errKind |-> "single", errs |-> <<fe>>, rs |-> << >>]
         ELSE [call |-> "Wait", vsNil |-> TRUE, vs |-> << >>,
               errKind |-> "list", errs |-> ErrList(rs), rs |-> << >>]
    ELSE [call |-> "Wait", vsNil |-> FALSE, vs |-> Values(rs),
          errKind |-> "nil", errs |-> << >>, rs |-> << >>]

\* A variant of LaxOutcome that leaves out the results that hold an error.
LaxOutcomeSuccessesOnly(rs) ==
    [call |-> "WaitLax", vsNil |-> TRUE, vs |-> << >>, errKind |-> "nil",
     errs |-> << >>, rs |-> SelectSeq(rs, LAMBDA r : r.Err = NilErr)]

\* What WaitLax returns from the rs of wait.
LaxOutcome(rs) ==
    [call |-> "WaitLax", vsNil |-> TRUE, vs |-> << >>, errKind |-> "nil",
     errs |-> << >>, rs |-> rs]

\* The end of wait: `g.funcs = nil`, the return and the deferred cancel. A
\* call of another goroutine that is about to store in g.funcs is overrun.
ClearQueue ==
    /\ pc = "wait"
    /\ ph = "clear"
    /\ \E h \in Stored(ClearedQueue(hdr), cur.raced) : hdr' = h
    /\ cur' = [cur EXCEPT !.raced = {}]
    /\ waiting' = [k \in 1..Len(waiting) |->
                    Overrun(waiting[k], waiting[k].st = "append",
                            ClearedQueue(hdr))]
    /\ ow' = Overrun(ow, ow.ph = "clear", ClearedQueue(hdr))
    /\ heap' = Swept(heap, hdr', cur', waiting', ow')
    /\ runCtx' = DeferredCancel(runCtx)
    /\ ph' = "end"
    /\ UNCHANGED <<cancelOnErr, timeout, semCh, mu, disabled, pc, lax, ctx,
                   li, wk, resCh, resCap, recvd, results, firstErr, ret, late,
                   nWaits, queued, sawDisabled>>
    /\ UNCHANGED <<nOther, runVars, spinVars>>

\* The end of Wait/WaitLax: build the returned values, which in Wait reads
\* g.cancelOnErr, and the deferred Unlock.
WaitReturn ==
    /\ pc = "wait"
    /\ ph = "end"
    /\ ret' = IF lax THEN LaxOutcome(results)
              ELSE WaitOutcome(results, firstErr, cancelOnErr)
    /\ mu' = Unlocked(mu, disabled)
    /\ sawDisabled' = (sawDisabled \/ disabled)
    /\ pc' = IF UnlockFatal(mu, disabled) THEN "fatal" ELSE "idle"
    /\ ph' = "none"
    /\ cur' = NoCur
    /\ queued' = << >>
    /\ UNCHANGED <<cancelOnErr, timeout, semCh, hdr, heap, disabled, lax, ctx,
                   runCtx, li, wk, resCh, resCap, recvd, results, firstErr, late,
                   nWaits, ow>>
    /\ UNCHANGED otherVars

Next ==
    \/ \E enabled \in BOOLEAN : SetLocking(enabled)
    \/ \E n \in 0..MaxCap : SetMaxGoroutines(n)
    \/ \E b \in BOOLEAN : SetCancelOnError(b)
    \/ \E d \in {0, 1} : SetTimeout(d)
    \/ \E f \in OpsAt(Len(funcs) + 1) : Queue(f)
    \/ \E isLax \in BOOLEAN : WaitStart(isLax)
    \/ LockReturns
    \/ QueueLoad
    \/ Assign
    \/ AssignElem
    \/ UnlockReturns
    \/ Derive
    \/ Derive2
    \/ MakeResCh
    \/ RangeStart
    \/ Launch
    \/ \E i \in 1..Len(wk) : Finish(i)
    \/ \E i \in 1..Len(wk) : Defer(i)
    \/ LateDefer
    \/ MakeResults
    \/ LoopTest
    \/ Collect
    \/ TimeoutElapse
    \/ CallerCancel
    \/ ClearQueue
    \/ WaitReturn

Spec == Init /\ [][Next]_vars

\* The Go scheduler runs every goroutine that can run: the caller inside a
\* call, the launcher, the goroutines of the operations and the waiting
\* routine each take their next step if it stays possible, and the timer of a
\* timeout fires. Nothing is assumed of the calls the caller makes or of the
\* caller's cancellation.
Fairness ==
    /\ WF_vars(LockReturns)
    /\ WF_vars(Derive)
    /\ WF_vars(Derive2)
    /\ WF_vars(MakeResCh)
    /\ WF_vars(RangeStart)
    /\ WF_vars(Launch)
    /\ WF_vars(MakeResults)
    /\ WF_vars(LoopTest)
    /\ \A i \in 1..MaxOps :
        /\ WF_vars(i <= Len(wk) /\ Finish(i))
        /\ WF_vars(i <= Len(wk) /\ Defer(i))
    /\ WF_vars(LateDefer)
    /\ WF_vars(Collect)
    /\ WF_vars(TimeoutElapse)
    /\ WF_vars(ClearQueue)
    /\ WF_vars(WaitReturn)

SpecFair == Spec /\ Fairness

\* -------------------------------------- calls of other goroutines on the Group
\* The calls another goroutine makes on the Group while a wait is in progress.
\* The operation it queues returns 0, so that it differs from the caller's.
OtherCalls ==
    {Method("SetMaxGoroutines", n, FALSE, 0, Blocked) : n \in 0..MaxCap}
    \cup {Method("SetCancelOnError", 0, b, 0, Blocked) : b \in BOOLEAN}
    \cup {Method("SetTimeout", 0, FALSE, d, Blocked) : d \in {0, 1}}
    \cup {Method("Queue", 0, FALSE, 0, Ok(0))}
    \cup {Method(m, 0, FALSE, 0, Blocked) : m \in {"Wait", "WaitLax"}}

\* s without its k-th element.
RemoveAt(s, k) == [j \in 1..(Len(s) - 1) |-> IF j < k THEN s[j] ELSE s[j + 1]]

\* The locals of a Wait (or WaitLax, when isLax) whose Lock has returned.
StartedWait(isLax) == [NoWait EXCEPT !.ph = "derive", !.lax = isLax]

\* Another goroutine calls a method of the Group during a wait and reaches
\* g.mu.Lock(), where it reads tm.disabled: when it finds the mutex enabled
\* the call is at tm.mu.Lock(), and otherwise Lock has returned. The model
\* follows one Wait or WaitLax of another goroutine at a time, and the calls
\* made while the wait in progress runs at most MaxRacedOps operations.
Call(c) ==
    /\ pc = "wait"
    /\ Len(waiting) < MaxBlocked
    /\ nOther < MaxOtherCalls
    /\ N <= MaxRacedOps /\ Len(wk) <= MaxRacedOps
    /\ c.m = "Queue" => Len(funcs) < MaxOps
    /\ IsWait(c) => /\ ow.ph = "none"
                    /\ \A k \in 1..Len(waiting) : ~IsWait(waiting[k])
    /\ nOther' = nOther + 1
    /\ sawDisabled' = (sawDisabled \/ disabled)
    /\ IF disabled /\ IsWait(c)
       THEN /\ ow' = StartedWait(c.m = "WaitLax")
            /\ waiting' = waiting
       ELSE /\ ow' = ow
            /\ waiting' = Append(waiting,
                    [c EXCEPT !.locks = ~disabled,
                              !.st = IF disabled THEN "body" ELSE "lock"])
    /\ UNCHANGED <<cancelOnErr, timeout, semCh, hdr, heap, mu, disabled, pc, cur, ph,
                   lax, ctx, runCtx, li, wk, resCh, resCap, recvd, results,
                   firstErr, ret, late, nWaits, queued>>
    /\ UNCHANGED <<runVars, spinVars>>

\* Another goroutine calls SetLocking during a wait: no lock is taken.
OtherSetLocking(enabled) ==
    /\ pc = "wait"
    /\ nOther < MaxOtherCalls
    /\ N <= MaxRacedOps /\ Len(wk) <= MaxRacedOps
    /\ nOther' = nOther + 1
    /\ disabled' = ~enabled
    /\ UNCHANGED <<cancelOnErr, timeout, semCh, hdr, heap, mu, pc, cur, ph, lax, ctx,
                   runCtx, li, wk, resCh, resCap, recvd, results, firstErr, ret,
                   late, nWaits, queued, sawDisabled, ow>>
    /\ UNCHANGED <<waiting, runVars, spinVars>>

\* tm.mu.Lock() returns in the k-th of these calls. In Wait and WaitLax the
\* call of wait follows.
Enter(k) ==
    /\ Running
    /\ waiting[k].st = "lock"
    /\ CanLock(mu, ~waiting[k].locks)
    /\ mu' = Locked(mu, ~waiting[k].locks)
    /\ IF IsWait(waiting[k])
       THEN /\ ow' = StartedWait(waiting[k].m = "WaitLax")
            /\ waiting' = RemoveAt(waiting, k)
       ELSE /\ ow' = ow
            /\ waiting' = [waiting EXCEPT ![k].st = "body"]
    /\ UNCHANGED <<cancelOnErr, timeout, semCh, hdr, heap, disabled, pc, cur, ph,
                   lax, ctx, runCtx, li, wk, resCh, resCap, recvd, results,
                   firstErr, ret, late, nWaits, queued, sawDisabled>>
    /\ UNCHANGED <<nOther, runVars, spinVars>>

\* The load of g.funcs in the `g.funcs = append(g.funcs, f)` of the k-th call,
\* and append up to the store of the header it makes. When append faults the
\* deferred Unlock of Queue runs while the panic unwinds.
Load(k) ==
    /\ Running
    /\ waiting[k].st = "body"
    /\ waiting[k].m = "Queue"
    /\ \E h \in ReadFuncs(CallerStores \cup OtherWaitStores
                            \cup CallStores(1..Len(waiting) \ {k})) :
        IF Appended(h) = {}
        THEN /\ pc' = Crashed(mu, disabled)
             /\ mu' = Unlocked(mu, disabled)
             /\ UNCHANGED <<waiting, heap>>
        ELSE /\ \E a \in Appended(h) :
                  /\ waiting' = [waiting EXCEPT ![k].st = "append",
                                                ![k].ld = a.ld]
                  /\ heap' = a.heap
             /\ UNCHANGED <<pc, mu>>
    /\ UNCHANGED <<cancelOnErr, timeout, semCh, hdr, disabled, cur, ph, lax,
                   ctx, runCtx, li, wk, resCh, resCap, recvd, results, firstErr,
                   ret, late, nWaits, queued, sawDisabled, ow>>
    /\ UNCHANGED <<nOther, runVars, spinVars>>

\* The assignment in the k-th call. A call that holds no lock makes it at any
\* moment of a wait: the wait reads the fields of the Group as they are at each
\* of its steps, and a goroutine that is at a channel operation on the
\* replaced g.semCh may stay there. Who else is about to store in g.funcs is
\* overrun by a store in g.funcs.
Store(k) ==
    /\ Running
    /\ \/ waiting[k].st = "body" /\ waiting[k].m # "Queue"
       \/ waiting[k].st = "append"
    /\ Writes(waiting[k])
    /\ cur' = Overrun(cur,
                      /\ waiting[k].m = "Queue"
                      /\ pc = "append" \/ (pc = "wait" /\ ph = "clear"),
                      waiting[k].ld)
    /\ waiting' = [j \in 1..Len(waiting) |->
                    IF j = k
                    THEN [waiting[k] EXCEPT
                            !.st = IF waiting[k].m = "Queue" THEN "elem"
                                   ELSE "unlock",
                            !.raced = {}]
                    ELSE Overrun(waiting[j],
                                 /\ waiting[k].m = "Queue"
                                 /\ waiting[j].st = "append",
                                 waiting[k].ld)]
    /\ heap' = Swept(heap, hdr', cur', waiting', ow')
    /\ UNCHANGED <<mu, disabled, pc, lax, ctx, runCtx, li, resCh, resCap,
                   recvd, results, firstErr, ret, nWaits, queued, sawDisabled>>
    /\ UNCHANGED <<nOther, runVars, spinVars>>

\* The write of f to the new element in the Queue of the k-th call.
StoreElem(k) ==
    /\ Running
    /\ waiting[k].st = "elem"
    /\ IF waiting[k].ld.ptr = 0
       THEN /\ pc' = Crashed(mu, disabled)
            /\ mu' = Unlocked(mu, disabled)
            /\ UNCHANGED <<waiting, heap, wk, ow>>
       ELSE /\ waiting' = [waiting EXCEPT ![k].st = "unlock",
                                          ![k].ld = NoCur.ld]
            /\ heap' = Swept(Fill(heap, waiting[k].ld, waiting[k].f), hdr, cur,
                             waiting', ow)
            /\ \E early \in BOOLEAN :
                /\ wk' = IF pc = "wait" /\ cur.ld.ptr = waiting[k].ld.ptr
                         THEN FillBatch(wk, li, waiting[k].ld.len,
                                        heap'[waiting[k].ld.ptr]
                                             [waiting[k].ld.len], early)
                         ELSE wk
                /\ ow' = [ow EXCEPT
                            !.wk = IF ow.ld.ptr = waiting[k].ld.ptr
                                   THEN FillBatch(@, ow.li, waiting[k].ld.len,
                                                  heap'[waiting[k].ld.ptr]
                                                       [waiting[k].ld.len],
                                                  early)
                                   ELSE @]
            /\ UNCHANGED <<pc, mu>>
    /\ UNCHANGED <<cancelOnErr, timeout, semCh, hdr, disabled, cur, ph, lax,
                   ctx, runCtx, li, resCh, resCap, recvd, results, firstErr,
                   ret, late, nWaits, queued, sawDisabled>>
    /\ UNCHANGED <<nOther, runVars, spinVars>>

\* The deferred g.mu.Unlock() of the k-th call, which reads tm.disabled again.
Leave(k) ==
    /\ Running
    /\ waiting[k].st = "unlock"
    /\ mu' = Unlocked(mu, disabled)
    /\ sawDisabled' = (sawDisabled \/ disabled)
    /\ pc' = IF UnlockFatal(mu, disabled) THEN "fatal" ELSE pc
    /\ waiting' = RemoveAt(waiting, k)
    /\ UNCHANGED <<cancelOnErr, timeout, semCh, hdr, heap, disabled, cur, ph, lax,
                   ctx, runCtx, li, wk, resCh, resCap, recvd, results, firstErr,
                   ret, late, nWaits, queued, ow>>
    /\ UNCHANGED <<nOther, runVars, spinVars>>

\* `v, err := f(runCtx)` in goroutine i of the caller's wait, or of the wait
\* of another goroutine, when f is no function. The call of nil panics in the
\* goroutine, whose deferred function receives from g.semCh before the panic
\* ends the program, and no deferred call of Wait runs. The call of a word
\* that is not nil is a fault at an address that is not nil, a fatal error
\* that ends the program at once.
NilCall(i) ==
    /\ Running
    /\ \E b \in {w \in {wk, ow.wk} : i <= Len(w)} :
        /\ b[i].st = "run"
        /\ IF b[i].f.kind = "nil"
           THEN /\ CanRelease(semCh)
                /\ semCh' = Release(semCh)
                /\ pc' = "panic"
           ELSE /\ b[i].f.kind = "wild"
                /\ semCh' = semCh
                /\ pc' = "fatal"
    /\ UNCHANGED <<cancelOnErr, timeout, hdr, heap, mu, disabled, cur, ph, lax,
                   ctx, runCtx, li, wk, resCh, resCap, recvd, results, firstErr,
                   ret, late, nWaits, queued, sawDisabled, ow>>
    /\ UNCHANGED otherVars

\* --------------------------------------- Wait/WaitLax of another goroutine
\* The steps of the wait of another goroutine are those of the caller's wait,
\* on locals of its own (ow): it reads the same fields of the Group, sends to
\* and receives from the same g.semCh, and has its own resCh. The other
\* goroutine does not cancel the context it gives to the wait.
OtherDerive ==
    /\ Running
    /\ ow.ph = "derive"
    /\ ow' = [ow EXCEPT !.runCtx = DeriveCtx(timeout, FALSE, NilErr),
                        !.ph = IF timeout > 0 THEN "make" ELSE "derive2"]
    /\ UNCHANGED <<cancelOnErr, timeout, semCh, hdr, heap, mu, disabled, pc, cur, ph,
                   lax, ctx, runCtx, li, wk, resCh, resCap, recvd, results,
                   firstErr, ret, late, nWaits, queued, sawDisabled>>
    /\ UNCHANGED otherVars

OtherDerive2 ==
    /\ Running
    /\ ow.ph = "derive2"
    /\ ow' = [ow EXCEPT !.runCtx = DeriveCtx(0, cancelOnErr, NilErr),
                        !.ph = "make"]
    /\ UNCHANGED <<cancelOnErr, timeout, semCh, hdr, heap, mu, disabled, pc, cur, ph,
                   lax, ctx, runCtx, li, wk, resCh, resCap, recvd, results,
                   firstErr, ret, late, nWaits, queued, sawDisabled>>
    /\ UNCHANGED otherVars

OtherMakeResCh ==
    /\ Running
    /\ ow.ph = "make"
    /\ ow' = [ow EXCEPT !.resCap = N, !.ph = "range"]
    /\ UNCHANGED <<cancelOnErr, timeout, semCh, hdr, heap, mu, disabled, pc, cur, ph,
                   lax, ctx, runCtx, li, wk, resCh, resCap, recvd, results,
                   firstErr, ret, late, nWaits, queued, sawDisabled>>
    /\ UNCHANGED otherVars

OtherRangeStart ==
    /\ Running
    /\ ow.ph = "range"
    /\ \E h \in ReadFuncs(CallerStores \cup CallStores(1..Len(waiting))) :
        IF h.ptr = 0 /\ h.len > 0
        THEN /\ pc' = Crashed(mu, disabled)
             /\ mu' = Unlocked(mu, disabled)
             /\ ow' = [ow EXCEPT !.runCtx = DeferredCancel(@)]
        ELSE /\ ow' = [ow EXCEPT !.wk = Batch(h), !.ph = "launch",
                                 !.ld.ptr = h.ptr]
             /\ UNCHANGED <<pc, mu>>
    /\ UNCHANGED <<cancelOnErr, timeout, semCh, hdr, heap, disabled, cur, ph,
                   lax, ctx, runCtx, li, wk, resCh, resCap, recvd, results,
                   firstErr, ret, late, nWaits, queued, sawDisabled>>
    /\ UNCHANGED otherVars

OtherLaunch ==
    /\ Running
    /\ AtSend(ow.ph, ow.li, ow.wk)
    /\ CanAcquire(semCh)
    /\ semCh' = Acquire(semCh)
    /\ \E f \in Taken(ow.wk[ow.li + 1].f) :
        ow' = [ow EXCEPT !.li = @ + 1, !.wk[ow.li + 1].st = "run",
                         !.wk[ow.li + 1].f = f]
    /\ UNCHANGED <<cancelOnErr, timeout, hdr, heap, mu, disabled, pc, cur, ph,
                   lax, ctx, runCtx, li, wk, resCh, resCap, recvd, results,
                   firstErr, ret, late, nWaits, queued, sawDisabled>>
    /\ UNCHANGED otherVars

OtherFinish(i) ==
    /\ Running
    /\ ow.wk[i].st = "run"
    /\ CanReturn(ow.wk[i].f, ow.runCtx)
    /\ CanSend(ow.resCh, ow.resCap, ow.ph = "recv")
    /\ LET r == BodyResult(ow.wk[i].f, ow.runCtx) IN
        ow' = [ow EXCEPT !.wk[i].st = "defer", !.wk[i].Value = r.Value,
                         !.wk[i].Err = r.Err,
                         !.resCh = Append(@, [Value |-> r.Value,
                                              Err |-> r.Err, i |-> i])]
    /\ UNCHANGED <<cancelOnErr, timeout, semCh, hdr, heap, mu, disabled, pc, cur, ph,
                   lax, ctx, runCtx, li, wk, resCh, resCap, recvd, results,
                   firstErr, ret, late, nWaits, queued, sawDisabled>>
    /\ UNCHANGED otherVars

OtherDefer(i) ==
    /\ Running
    /\ ow.wk[i].st = "defer"
    /\ CanRelease(semCh)
    /\ semCh' = Release(semCh)
    /\ ow' = [ow EXCEPT !.wk[i].st = "exit"]
    /\ UNCHANGED <<cancelOnErr, timeout, hdr, heap, mu, disabled, pc, cur, ph, lax,
                   ctx, runCtx, li, wk, resCh, resCap, recvd, results, firstErr,
                   ret, late, nWaits, queued, sawDisabled>>
    /\ UNCHANGED otherVars

OtherMakeResults ==
    /\ Running
    /\ ow.ph = "launch"
    /\ LaunchOver(ow.li, Len(ow.wk))
    /\ ow' = [ow EXCEPT !.size = N, !.ph = "test", !.ld = NoCur.ld]
    /\ heap' = Swept(heap, hdr, cur, waiting, ow')
    /\ UNCHANGED <<cancelOnErr, timeout, semCh, hdr, mu, disabled, pc, cur, ph,
                   lax, ctx, runCtx, li, wk, resCh, resCap, recvd, results,
                   firstErr, ret, late, nWaits, queued, sawDisabled>>
    /\ UNCHANGED otherVars

OtherLoopTest ==
    /\ Running
    /\ ow.ph = "test"
    /\ ow' = [ow EXCEPT !.ph = IF LoopDone(N, ow.got) THEN "clear" ELSE "recv"]
    /\ UNCHANGED <<cancelOnErr, timeout, semCh, hdr, heap, mu, disabled, pc, cur, ph,
                   lax, ctx, runCtx, li, wk, resCh, resCap, recvd, results,
                   firstErr, ret, late, nWaits, queued, sawDisabled>>
    /\ UNCHANGED otherVars

\* A panic in the wait of another goroutine ends the program as well.
OtherCollect ==
    /\ Running
    /\ ow.ph = "recv"
    /\ ow.resCh # << >>
    /\ LET res == Head(ow.resCh)
           calls == CallsCancel(ow.firstErr, res, cancelOnErr, ow.lax)
           panics == \/ OutOfRange(ow.size, res)
                     \/ calls /\ CancelIsNil(ow.runCtx)
       IN
        /\ ow' = [ow EXCEPT
                    !.resCh = Tail(@),
                    !.got = @ + 1,
                    !.firstErr = IF OutOfRange(ow.size, res) THEN @
                                 ELSE NextFirstErr(@, res),
                    !.runCtx = IF OutOfRange(ow.size, res)
                               THEN DeferredCancel(@)
                               ELSE IF calls /\ ~CancelIsNil(@)
                               THEN Cancel(@) ELSE @,
                    !.ph = IF panics THEN @ ELSE "test"]
        /\ pc' = IF panics THEN Crashed(mu, disabled) ELSE pc
        /\ mu' = IF panics THEN Unlocked(mu, disabled) ELSE mu
    /\ UNCHANGED <<cancelOnErr, timeout, semCh, hdr, heap, disabled, cur, ph, lax,
                   ctx, runCtx, li, wk, resCh, resCap, recvd, results, firstErr,
                   ret, late, nWaits, queued, sawDisabled>>
    /\ UNCHANGED otherVars

OtherTimeoutElapse ==
    /\ Running
    /\ ow.ph # "none"
    /\ ow.runCtx.kind = "timeout"
    /\ ow.runCtx.err = NilErr
    /\ ow' = [ow EXCEPT !.runCtx.err = DeadlineExceeded]
    /\ UNCHANGED <<cancelOnErr, timeout, semCh, hdr, heap, mu, disabled, pc, cur, ph,
                   lax, ctx, runCtx, li, wk, resCh, resCap, recvd, results,
                   firstErr, ret, late, nWaits, queued, sawDisabled>>
    /\ UNCHANGED otherVars

OtherClearQueue ==
    /\ Running
    /\ ow.ph = "clear"
    /\ \E h \in Stored(ClearedQueue(hdr), ow.raced) : hdr' = h
    /\ ow' = [ow EXCEPT !.runCtx = DeferredCancel(@), !.ph = "end",
                        !.raced = {}]
    /\ cur' = Overrun(cur, pc = "append" \/ (pc = "wait" /\ ph = "clear"),
                      ClearedQueue(hdr))
    /\ waiting' = [k \in 1..Len(waiting) |->
                    Overrun(waiting[k], waiting[k].st = "append",
                            ClearedQueue(hdr))]
    /\ heap' = Swept(heap, hdr', cur', waiting', ow')
    /\ UNCHANGED <<cancelOnErr, timeout, semCh, mu, disabled, pc, ph, lax,
                   ctx, runCtx, li, wk, resCh, resCap, recvd, results, firstErr,
                   ret, late, nWaits, queued, sawDisabled>>
    /\ UNCHANGED <<nOther, runVars, spinVars>>

\* The wait of the other goroutine returns and unlocks; the goroutines of its
\* batch that have not run their deferred function yet stay alive.
OtherWaitReturn ==
    /\ Running
    /\ ow.ph = "end"
    /\ mu' = Unlocked(mu, disabled)
    /\ sawDisabled' = (sawDisabled \/ disabled)
    /\ pc' = IF UnlockFatal(mu, disabled) THEN "fatal" ELSE pc
    /\ \E l \in Leftover(ow.wk, ow.resCh, ow.resCap) : late' = late + l
    /\ ow' = NoWait
    /\ UNCHANGED <<cancelOnErr, timeout, semCh, hdr, heap, disabled, cur, ph, lax,
                   ctx, runCtx, li, wk, resCh, resCap, recvd, results, firstErr,
                   ret, nWaits, queued>>
    /\ UNCHANGED otherVars

\* The steps of a Group that several goroutines use with locking enabled, as
\* it is by default: the caller calls every method but SetLocking, and another
\* goroutine calls Queue, Wait, WaitLax and the setters during a wait of the
\* caller.
NextLock ==
    \/ \E n \in 0..MaxCap : SetMaxGoroutines(n)
    \/ \E b \in BOOLEAN : SetCancelOnError(b)
    \/ \E d \in {0, 1} : SetTimeout(d)
    \/ \E f \in OpsAt(Len(funcs) + 1) : Queue(f)
    \/ \E isLax \in BOOLEAN : WaitStart(isLax)
    \/ LockReturns
    \/ QueueLoad
    \/ Assign
    \/ AssignElem
    \/ UnlockReturns
    \/ Derive
    \/ Derive2
    \/ MakeResCh
    \/ RangeStart
    \/ Launch
    \/ \E i \in 1..Len(wk) : Finish(i)
    \/ \E i \in 1..Len(wk) : Defer(i)
    \/ LateDefer
    \/ MakeResults
    \/ LoopTest
    \/ Collect
    \/ TimeoutElapse
    \/ CallerCancel
    \/ ClearQueue
    \/ WaitReturn
    \/ \E c \in OtherCalls : Call(c)
    \/ \E k \in 1..Len(waiting) : Enter(k)
    \/ \E k \in 1..Len(waiting) : Load(k)
    \/ \E k \in 1..Len(waiting) : Store(k)
    \/ \E k \in 1..Len(waiting) : StoreElem(k)
    \/ \E k \in 1..Len(waiting) : Leave(k)
    \/ OtherDerive
    \/ OtherDerive2
    \/ OtherMakeResCh
    \/ OtherRangeStart
    \/ OtherLaunch
    \/ \E i \in 1..Len(ow.wk) : OtherFinish(i)
    \/ \E i \in 1..Len(ow.wk) : OtherDefer(i)
    \/ OtherMakeResults
    \/ OtherLoopTest
    \/ OtherCollect
    \/ OtherTimeoutElapse
    \/ OtherClearQueue
    \/ OtherWaitReturn

SpecLock == Init /\ [][NextLock]_vars

\* The steps of a Group that several goroutines use with locking switched off:
\* the calls run beside each other, and beside a wait, with no lock held by
\* both sides. The caller calls SetLocking(false), SetMaxGoroutines, Queue,
\* Wait and WaitLax, starts a wait over at most QueueRoom operations, a nil
\* element being none, and does not cancel its context; another goroutine
\* calls any method of the Group, SetLocking(true) among them.

NextRace ==
    \/ SetLocking(FALSE)
    \/ \E n \in 0..MaxCap : SetMaxGoroutines(n)
    \/ \E f \in OpsAt(Len(funcs) + 1) : Queue(f)
    \/ \E isLax \in BOOLEAN :
        /\ Cardinality({i \in 1..N : funcs[i].kind # "nil"}) <= QueueRoom
        /\ WaitStart(isLax)
    \/ LockReturns
    \/ QueueLoad
    \/ Assign
    \/ AssignElem
    \/ UnlockReturns
    \/ Derive
    \/ Derive2
    \/ MakeResCh
    \/ RangeStart
    \/ Launch
    \/ \E i \in 1..Len(wk) : Finish(i)
    \/ \E i \in 1..Len(wk) : Defer(i)
    \/ LateDefer
    \/ MakeResults
    \/ LoopTest
    \/ Collect
    \/ TimeoutElapse
    \/ ClearQueue
    \/ WaitReturn
    \/ \E c \in OtherCalls : Call(c)
    \/ \E enabled \in BOOLEAN : OtherSetLocking(enabled)
    \/ \E k \in 1..Len(waiting) : Enter(k)
    \/ \E k \in 1..Len(waiting) : Load(k)
    \/ \E k \in 1..Len(waiting) : Store(k)
    \/ \E k \in 1..Len(waiting) : StoreElem(k)
    \/ \E k \in 1..Len(waiting) : Leave(k)
    \/ \E i \in DOMAIN wk \cup DOMAIN ow.wk : NilCall(i)
    \/ OtherDerive
    \/ OtherDerive2
    \/ OtherMakeResCh
    \/ OtherRangeStart
    \/ OtherLaunch
    \/ \E i \in 1..Len(ow.wk) : OtherFinish(i)
    \/ \E i \in 1..Len(ow.wk) : OtherDefer(i)
    \/ OtherMakeResults
    \/ OtherLoopTest
    \/ OtherCollect
    \/ OtherTimeoutElapse
    \/ OtherClearQueue
    \/ OtherWaitReturn

SpecRace == Init /\ [][NextRace]_vars

\* ------------------------------------------- progress.Run and RunParallel
\* const defaultTimeout = 10 * time.Minute, in milliseconds.
defaultTimeout == 600000

\* The timeouts given in the options: none, and the 5ms of the tests.
Timeouts == {0, 5}

\* An fn that waits for ctx.Done() and then returns a nil error, as the
\* "timeout" function of TestRunError.
Quiet == [kind |-> "quiet", val |-> -1, err |-> NilErr]

\* An fn that does not look at ctx and does not return.
Never == [kind |-> "never", val |-> -1, err |-> NilErr]

\* What fn does in its invocation with index i (from 0): return i, fail with
\* an error of its own, wait for ctx.Done() and return ctx.Err(), wait for
\* ctx.Done() and return nil, or never return.
FnAt(i) == {Ok(i), Fail(ErrorOf(i + 1)), Blocked, Quiet, Never}

\* fn can return under the context c.
FnCanReturn(f, c) ==
    /\ f.kind # "never"
    /\ f.kind \in {"ctx", "quiet"} => c.err # NilErr

\* (t, err) as fn returns them under the context c.
FnResult(f, c) ==
    IF f.kind = "quiet" THEN [Value |-> f.val, Err |-> NilErr]
    ELSE BodyResult(f, c)

\* The sequences of n behaviours, one per invocation.
FnSeqs(n) == {fs \in [1..n -> FnAt(0) \cup FnAt(1) \cup FnAt(2)] :
                \A k \in 1..n : fs[k] \in FnAt(k - 1)}

\* opts.Timeout after `if opts.Timeout == 0 { opts.Timeout = defaultTimeout }`.
ResolveTimeout(d) == IF d = 0 THEN defaultTimeout ELSE d

\* DefaultConcurrency() when runtime.NumCPU() returns cpus.
DefaultConcurrency(cpus) == IF cpus > 0 THEN cpus ELSE 1

\* opts.Concurrency after `if opts.Concurrency < 1 { ... }`.
ResolveConcurrency(c, cpus) == IF c < 1 THEN DefaultConcurrency(cpus) ELSE c

\* A variant of Start that leaves the tracker as it is.
StartNoop(tr) == tr

\* mockSpinnerTracker.Start.
Start(tr) == [tr EXCEPT !.active = TRUE, !.i = 0, !.starts = @ + 1]

\* A variant of Stop that leaves the tracker as it is.
StopNoop(tr) == tr

\* mockSpinnerTracker.Stop.
Stop(tr) == [tr EXCEPT !.active = FALSE, !.stops = @ + 1]

\* The tracker after the write of `t.i++` in mockSpinnerTracker.Inc, which
\* had read v from t.i.
Inc(tr, v) == [tr EXCEPT !.i = v + 1]

\* A goroutine made by a go statement, before it calls fn.
NewGoroutine(f) ==
    [st |-> "new", f |-> f, afterStart |-> FALSE, ctxAtBegin |-> NilErr,
     t |-> 0, err |-> NilErr, ld |-> 0]

\* The return of RunT or RunParallelT: the deferred cancel() and then the
\* deferred tracker.Stop() run, and the caller has o.
ReturnRun(o) ==
    /\ out' = o
    /\ tctx' = Cancel(tctx)
    /\ tracker' = Stop(tracker)
    /\ rpc' = "returned"

\* RunT up to its select: resolve the timeout, take the tracker, derive ctx,
\* start the tracker, make resCh, and the go statement.
RunT(d, f) ==
    /\ rpc = "idle"
    /\ opts' = [NoCall EXCEPT !.name = "RunT", !.Timeout = ResolveTimeout(d)]
    /\ fns' = <<f>>
    /\ tctx' = [kind |-> "timeout", err |-> parent]
    /\ tracker' = Start(tracker)
    /\ gs' = <<NewGoroutine(f)>>
    /\ rpc' = "run"
    /\ UNCHANGED <<parent, resChT, semLen, received, t, errs, out>>
    /\ UNCHANGED <<groupVars, lockVars, spinVars>>

\* RunT's select takes `case res := <-resCh`.
RunTReceive ==
    /\ rpc = "run"
    /\ opts.name = "RunT"
    /\ resChT # << >>
    /\ LET res == Head(resChT) IN
        /\ resChT' = Tail(resChT)
        /\ ReturnRun([tNil |-> FALSE, t |-> <<res.t>>,
                      errKind |-> IF res.err # NilErr THEN "single" ELSE "nil",
                      errs |-> IF res.err # NilErr THEN <<res.err>> ELSE << >>])
    /\ UNCHANGED <<opts, fns, parent, gs, semLen, received, t, errs>>
    /\ UNCHANGED <<groupVars, lockVars, spinVars>>

\* RunT's select takes `case <-ctx.Done()`: return t, ctx.Err() with the zero t.
RunTDone ==
    /\ rpc = "run"
    /\ opts.name = "RunT"
    /\ tctx.err # NilErr
    /\ ReturnRun([tNil |-> FALSE, t |-> <<0>>, errKind |-> "single",
                  errs |-> <<tctx.err>>])
    /\ UNCHANGED <<opts, fns, parent, gs, resChT, semLen, received, t, errs>>
    /\ UNCHANGED <<groupVars, lockVars, spinVars>>

\* A variant of NothingToRun that never takes the early return.
NothingToRunNever(count) == FALSE

\* `if opts.Count < 1`: RunParallelT returns nil, nil at once.
NothingToRun(count) == count < 1

\* A variant of EarlyOut that returns an empty, non-nil slice.
EarlyOutEmptySlice(o) == [o EXCEPT !.tNil = FALSE]

\* What `return nil, nil` returns.
EarlyOut(o) == [o EXCEPT !.tNil = TRUE, !.t = << >>, !.errKind = "nil",
                         !.errs = << >>]

\* RunParallelT up to its first loop. With Count < 1 it returns before it
\* takes the tracker from ctx.
RunParallelT(count, conc, coe, d, cpus, fs) ==
    /\ rpc = "idle"
    /\ fns' = fs
    /\ IF NothingToRun(count)
       THEN /\ opts' = [name |-> "RunParallelT", Count |-> count,
                        Concurrency |-> conc, CancelOnError |-> coe,
                        Timeout |-> d]
            /\ out' = EarlyOut(NoOut)
            /\ rpc' = "returned"
            /\ UNCHANGED <<tctx, tracker>>
       ELSE /\ opts' = [name |-> "RunParallelT", Count |-> count,
                        Concurrency |-> ResolveConcurrency(conc, cpus),
                        CancelOnError |-> coe, Timeout |-> ResolveTimeout(d)]
            /\ tctx' = [kind |-> "timeout", err |-> parent]
            /\ tracker' = Start(tracker)
            /\ rpc' = "run"
            /\ out' = out
    /\ UNCHANGED <<parent, gs, resChT, semLen, received, t, errs>>
    /\ UNCHANGED <<groupVars, lockVars, spinVars>>

\* A variant of SemHasRoom for a channel that never fills.
SemAlwaysHasRoom(n, c) == TRUE

\* A send to semCh, made with capacity c and holding n tokens, can proceed.
SemHasRoom(n, c) == n < c

\* One iteration of RunParallelT's first loop: `semCh <- struct{}{}` and the
\* go statement. The send blocks while Concurrency tokens are in semCh.
LaunchRun ==
    /\ rpc = "run"
    /\ opts.name = "RunParallelT"
    /\ Len(gs) < opts.Count
    /\ SemHasRoom(semLen, opts.Concurrency)
    /\ semLen' = semLen + 1
    /\ gs' = Append(gs, NewGoroutine(fns[Len(gs) + 1]))
    /\ UNCHANGED <<opts, fns, rpc, parent, tctx, tracker, resChT, received, t,
                   errs, out>>
    /\ UNCHANGED <<groupVars, lockVars, spinVars>>

\* Goroutine k is scheduled and calls fn.
BeginFn(k) ==
    /\ gs[k].st = "new"
    /\ gs' = [gs EXCEPT ![k].st = "run", ![k].afterStart = tracker.starts > 0,
                        ![k].ctxAtBegin = tctx.err]
    /\ UNCHANGED <<opts, fns, rpc, parent, tctx, tracker, resChT, semLen,
                   received, t, errs, out>>
    /\ UNCHANGED <<groupVars, lockVars, spinVars>>

\* fn returns in goroutine k and the goroutine sends the result: resCh has
\* room for every result, so the send follows at once. The goroutine of RunT
\* ends there.
FinishFn(k) ==
    /\ gs[k].st = "run"
    /\ FnCanReturn(gs[k].f, tctx)
    /\ LET r == FnResult(gs[k].f, tctx) IN
        /\ gs' = [gs EXCEPT ![k].st = IF opts.name = "RunT" THEN "exit"
                                       ELSE "sent",
                            ![k].t = r.Value, ![k].err = r.Err]
        /\ resChT' = Append(resChT, [t |-> r.Value, err |-> r.Err])
    /\ UNCHANGED <<opts, fns, rpc, parent, tctx, tracker, semLen, received, t,
                   errs, out>>
    /\ UNCHANGED <<groupVars, lockVars, spinVars>>

\* tracker.Inc() in goroutine k of RunParallelT, up to the read of t.i in
\* `t.i++`: the goroutines call Inc with no lock, so that another goroutine
\* may read or write t.i before this one writes it.
IncFn(k) ==
    /\ gs[k].st = "sent"
    /\ gs' = [gs EXCEPT ![k].st = "loaded", ![k].ld = tracker.i]
    /\ UNCHANGED <<opts, fns, rpc, parent, tctx, tracker, resChT, semLen,
                   received, t, errs, out>>
    /\ UNCHANGED <<groupVars, lockVars, spinVars>>

\* The write of `t.i++` in goroutine k: the value read, plus one.
IncStoreFn(k) ==
    /\ gs[k].st = "loaded"
    /\ gs' = [gs EXCEPT ![k].st = "inc", ![k].ld = 0]
    /\ tracker' = Inc(tracker, gs[k].ld)
    /\ UNCHANGED <<opts, fns, rpc, parent, tctx, resChT, semLen, received, t,
                   errs, out>>
    /\ UNCHANGED <<groupVars, lockVars, spinVars>>

\* The deferred `<-semCh` of goroutine k: its own token is in semCh at least.
ReleaseFn(k) ==
    /\ gs[k].st = "inc"
    /\ gs' = [gs EXCEPT ![k].st = "exit"]
    /\ semLen' = semLen - 1
    /\ UNCHANGED <<opts, fns, rpc, parent, tctx, tracker, resChT, received, t,
                   errs, out>>
    /\ UNCHANGED <<groupVars, lockVars, spinVars>>

\* The second loop of RunParallelT runs: the first loop is over.
Selecting ==
    /\ rpc = "run"
    /\ opts.name = "RunParallelT"
    /\ Len(gs) = opts.Count
    /\ received < opts.Count

\* A variant of AddErr that keeps only the first error.
AddErrFirstOnly(es, e) == IF es = << >> THEN <<e>> ELSE es

\* errs after `errs = append(errs, res.err)`.
AddErr(es, e) == Append(es, e)

\* An iteration of the second loop takes `case res := <-resCh`.
RunParallelTReceive ==
    /\ Selecting
    /\ resChT # << >>
    /\ LET res == Head(resChT) IN
        /\ resChT' = Tail(resChT)
        /\ IF res.err = NilErr
           THEN /\ t' = Append(t, res.t)
                /\ received' = received + 1
                /\ UNCHANGED <<errs, out, tctx, tracker, rpc>>
           ELSE IF opts.CancelOnError
           THEN /\ ReturnRun([tNil |-> TRUE, t |-> << >>, errKind |-> "single",
                              errs |-> <<res.err>>])
                /\ UNCHANGED <<t, errs, received>>
           ELSE /\ errs' = AddErr(errs, res.err)
                /\ received' = received + 1
                /\ UNCHANGED <<t, out, tctx, tracker, rpc>>
    /\ UNCHANGED <<opts, fns, parent, gs, semLen>>
    /\ UNCHANGED <<groupVars, lockVars, spinVars>>

\* An iteration of the second loop takes `case <-ctx.Done()`.
RunParallelTDone ==
    /\ Selecting
    /\ tctx.err # NilErr
    /\ ReturnRun([tNil |-> TRUE, t |-> << >>, errKind |-> "single",
                  errs |-> <<tctx.err>>])
    /\ UNCHANGED <<opts, fns, parent, gs, resChT, semLen, received, t, errs>>
    /\ UNCHANGED <<groupVars, lockVars, spinVars>>

\* The end of RunParallelT after Count results.
RunParallelTReturn ==
    /\ rpc = "run"
    /\ opts.name = "RunParallelT"
    /\ received = opts.Count
    /\ ReturnRun(IF Len(errs) > 0
                 THEN [tNil |-> TRUE, t |-> << >>, errKind |-> "list",
                       errs |-> errs]
                 ELSE [tNil |-> FALSE, t |-> t, errKind |-> "nil",
                       errs |-> << >>])
    /\ UNCHANGED <<opts, fns, parent, gs, resChT, semLen, received, t, errs>>
    /\ UNCHANGED <<groupVars, lockVars, spinVars>>

\* The timer of context.WithTimeout(ctx, opts.Timeout) fires.
TimeoutRun ==
    /\ rpc = "run"
    /\ tctx.err = NilErr
    /\ tctx' = [tctx EXCEPT !.err = DeadlineExceeded]
    /\ UNCHANGED <<opts, fns, rpc, parent, tracker, gs, resChT, semLen,
                   received, t, errs, out>>
    /\ UNCHANGED <<groupVars, lockVars, spinVars>>

\* The caller cancels the ctx it gives, or gave, to Run/RunParallel.
CancelRun ==
    /\ rpc \in {"idle", "run"}
    /\ parent = NilErr
    /\ parent' = Canceled
    /\ tctx' = IF rpc = "run" THEN Inherit(tctx) ELSE tctx
    /\ UNCHANGED <<opts, fns, rpc, tracker, gs, resChT, semLen, received, t,
                   errs, out>>
    /\ UNCHANGED <<groupVars, lockVars, spinVars>>

NextRun ==
    \/ \E d \in Timeouts, f \in FnAt(0) : RunT(d, f)
    \/ RunTReceive
    \/ RunTDone
    \/ /\ rpc = "idle"
       /\ \E count \in 0..MaxCount, conc \in -1..MaxConcurrency,
             coe \in BOOLEAN, d \in Timeouts, cpus \in 0..MaxCPUs :
            \E fs \in FnSeqs(count) : RunParallelT(count, conc, coe, d, cpus, fs)
    \/ LaunchRun
    \/ \E k \in 1..Len(gs) : BeginFn(k)
    \/ \E k \in 1..Len(gs) : FinishFn(k)
    \/ \E k \in 1..Len(gs) : IncFn(k)
    \/ \E k \in 1..Len(gs) : IncStoreFn(k)
    \/ \E k \in 1..Len(gs) : ReleaseFn(k)
    \/ RunParallelTReceive
    \/ RunParallelTDone
    \/ RunParallelTReturn
    \/ TimeoutRun
    \/ CancelRun

SpecRun == Init /\ [][NextRun]_vars

\* ------------------------------------------------------- spinner.Spinner
\* make(chan struct{}, 1): the capacity of stopChan.
StopChanCap == 1

\* The callers can make a call: no Stop holds the mutex at its send. Start and
\* Stop may be called from several goroutines; the mutex orders their bodies.
CanCallSpin == ~smu /\ nCalls < MaxCalls

\* Spinner.Start up to s.mu.Unlock(): with the mutex, return if active, else
\* set active and unlock; `go s.run()` is still to come.
SpinStart ==
    /\ CanCallSpin
    /\ nCalls' = nCalls + 1
    /\ IF active
       THEN UNCHANGED <<active, toGo>>
       ELSE /\ active' = TRUE
            /\ toGo' = toGo + 1
    /\ UNCHANGED <<stopChan, smu, atSelect, atLock>>
    /\ UNCHANGED <<groupVars, lockVars, runVars>>

\* `go s.run()` at the end of Start, after the mutex was released: the new
\* goroutine begins at its select.
SpinGo ==
    /\ toGo > 0
    /\ toGo' = toGo - 1
    /\ atSelect' = atSelect + 1
    /\ UNCHANGED <<active, stopChan, smu, atLock, nCalls>>
    /\ UNCHANGED <<groupVars, lockVars, runVars>>

\* Spinner.Stop up to its send: with the mutex, return if not active, else
\* clear active and go on to `s.stopChan <- struct{}{}` with the mutex held.
SpinStop ==
    /\ CanCallSpin
    /\ nCalls' = nCalls + 1
    /\ IF ~active
       THEN UNCHANGED <<active, smu>>
       ELSE /\ active' = FALSE
            /\ smu' = TRUE
    /\ UNCHANGED <<stopChan, atSelect, atLock, toGo>>
    /\ UNCHANGED <<groupVars, lockVars, runVars>>

\* The send of Stop proceeds once stopChan has room; Stop then erases, and
\* its deferred Unlock runs.
SpinStopSend ==
    /\ smu
    /\ stopChan < StopChanCap
    /\ stopChan' = stopChan + 1
    /\ smu' = FALSE
    /\ UNCHANGED <<active, atSelect, atLock, toGo, nCalls>>
    /\ UNCHANGED <<groupVars, lockVars, runVars>>

\* A variant of TakesStop for a select that never takes the stopChan case.
TakesStopNever(n) == FALSE

\* The select of run takes `case <-s.stopChan` when stopChan holds n > 0
\* tokens, and default otherwise.
TakesStop(n) == n > 0

\* The select of one goroutine of run: it receives the token and returns, or
\* takes default and goes to s.mu.Lock().
RunSelect ==
    /\ atSelect > 0
    /\ atSelect' = atSelect - 1
    /\ IF TakesStop(stopChan)
       THEN /\ stopChan' = stopChan - 1
            /\ atLock' = atLock
       ELSE /\ atLock' = atLock + 1
            /\ stopChan' = stopChan
    /\ UNCHANGED <<active, smu, toGo, nCalls>>
    /\ UNCHANGED <<groupVars, lockVars, runVars>>

\* The default case of one goroutine of run, once it has the mutex: it returns
\* if the spinner is not active, else draws a frame, unlocks, sleeps and is
\* back at the select.
RunDraw ==
    /\ atLock > 0
    /\ ~smu
    /\ atLock' = atLock - 1
    /\ atSelect' = IF active THEN atSelect + 1 ELSE atSelect
    /\ UNCHANGED <<active, stopChan, smu, toGo, nCalls>>
    /\ UNCHANGED <<groupVars, lockVars, runVars>>

NextSpin ==
    \/ SpinStart
    \/ SpinGo
    \/ SpinStop
    \/ SpinStopSend
    \/ RunSelect
    \/ RunDraw

SpecSpin == Init /\ [][NextSpin]_vars

\* The scheduler runs the goroutines of run, the goroutine inside Stop and the
\* goroutine that is at the go statement of Start.
FairnessSpin ==
    /\ WF_vars(SpinGo)
    /\ WF_vars(RunSelect)
    /\ WF_vars(RunDraw)
    /\ WF_vars(SpinStopSend)

SpecSpinFair == SpecSpin /\ FairnessSpin

\* ------------------------------------------------------------------ claims
\* Wait (or WaitLax) has returned and the caller has made no further call.
Returned(call) == pc = "idle" /\ ret.call = call

\* The operations of the batch whose body returned a non-nil error.
Failing == {i \in 1..Len(wk) : wk[i].Err # NilErr}

\* The k-th failing operation in submission order.
NthFailing(k) ==
    CHOOSE i \in Failing : Cardinality({j \in Failing : j < i}) = k - 1

\* The errors of the failing operations in submission order.
ErrsBySubmission == [k \in 1..Cardinality(Failing) |-> wk[NthFailing(k)].Err]

\* The errors of the failing operations in the order wait received them.
ErrsByCompletion ==
    LET failed == SelectSeq(recvd, LAMBDA r : r.Err # NilErr)
    IN  [k \in 1..Len(failed) |-> failed[k].Err]

\* C1: when every operation of the batch returned a nil error, Wait returns a
\* nil error and a non-nil slice of N values whose element i is the value the
\* i-th queued operation returned, whatever the order of completion.
C1_ValuesInSubmissionOrder ==
    (Returned("Wait") /\ Failing = {}) =>
        /\ ret.errKind = "nil"
        /\ ~ret.vsNil
        /\ Len(ret.vs) = Len(wk)
        /\ \A i \in 1..Len(wk) : ret.vs[i] = wk[i].Value

\* Wait returned the values of two successful operations of which the second
\* completed first.
C1_Witness ==
    /\ Returned("Wait")
    /\ Len(wk) >= 2
    /\ Failing = {}
    /\ recvd[1].i = 2
    /\ ret.vs[1] = wk[1].f.val
    /\ ret.vs[2] = wk[2].f.val

\* C2: while Wait/WaitLax runs on a Group with a cap C > 0, at most C
\* operation bodies are executing.
C2_CapNeverExceeded ==
    (pc = "wait" /\ semCh.cap > 0) => CountSt(wk, {"run"}) <= semCh.cap

\* C3: when Wait/WaitLax has returned, the body of every operation of the
\* batch has returned: no goroutine of the batch is unstarted or in its body.
C3_NoBodyRunningAtReturn ==
    (pc = "idle" /\ ret.call # "none") =>
        \A i \in 1..Len(wk) : wk[i].st \in {"defer", "exit"}

\* Wait returned after cancel-on-error fired, and a sibling that blocked on
\* its context has observed the cancellation and returned.
C3_Witness ==
    /\ Returned("Wait")
    /\ cancelOnErr
    /\ Len(wk) >= 2
    /\ \E i \in 1..Len(wk) : wk[i].f.kind = "err"
    /\ \E j \in 1..Len(wk) : wk[j].f.kind = "ctx" /\ wk[j].Err = Canceled

\* C4: with cancel-on-error, when some operation failed, Wait returns a nil
\* slice and one error: the error of the first failing result that wait
\* received.
C4_FirstReceivedError ==
    (Returned("Wait") /\ cancelOnErr /\ Failing # {}) =>
        /\ ret.vsNil
        /\ ret.errKind = "single"
        /\ ErrsByCompletion # << >>
        /\ ret.errs = <<ErrsByCompletion[1]>>

\* Two operations failed with different errors and Wait returned the error of
\* the second one queued.
C4_Witness ==
    /\ Returned("Wait")
    /\ cancelOnErr
    /\ {1, 2} \subseteq Failing
    /\ wk[1].Err # wk[2].Err
    /\ ret.errs = <<wk[2].Err>>

\* C5: with cancel-on-error, no cap, no timeout and a caller's context that
\* is not cancelled, when operation k fails at once and every other operation
\* blocks until its context is done, Wait returns the error of operation k and
\* every other operation has returned context.Canceled by then.
C5_CancelReachesSiblings ==
    \A k \in 1..Len(wk) :
        ( /\ Returned("Wait")
          /\ cancelOnErr
          /\ semCh.cap = 0
          /\ runCtx.kind = "cancel"
          /\ ctx = NilErr
          /\ wk[k].f.kind = "err"
          /\ \A j \in 1..Len(wk) \ {k} : wk[j].f.kind = "ctx" ) =>
            /\ ret.vsNil
            /\ ret.errKind = "single"
            /\ ret.errs = <<wk[k].f.err>>
            /\ \A j \in 1..Len(wk) \ {k} :
                   wk[j].st \in {"defer", "exit"} /\ wk[j].Err = Canceled

\* The batch of TestGroupCancelOnError, with the failing operation queued
\* last: Wait returned its error.
C5_Witness ==
    /\ Returned("Wait")
    /\ cancelOnErr
    /\ semCh.cap = 0
    /\ runCtx.kind = "cancel"
    /\ ctx = NilErr
    /\ Len(wk) >= 2
    /\ wk[Len(wk)].f.kind = "err"
    /\ \A j \in 1..(Len(wk) - 1) : wk[j].f.kind = "ctx" /\ wk[j].Err = Canceled
    /\ ret.errs = <<wk[Len(wk)].f.err>>

\* C6: without cancel-on-error, when some operation failed, Wait returns an
\* errors.List with one entry for each failing operation and no other entry.
C6_ListHoldsEachFailure ==
    (Returned("Wait") /\ ~cancelOnErr /\ Failing # {}) =>
        /\ ret.errKind = "list"
        /\ Len(ret.errs) = Cardinality(Failing)
        /\ \E g \in [1..Len(ret.errs) -> Failing] :
            /\ \A p, q \in 1..Len(ret.errs) : g[p] = g[q] => p = q
            /\ \A p \in 1..Len(ret.errs) : ret.errs[p] = wk[g[p]].Err

\* Wait returned a list of one error for a batch of which one operation
\* failed and another succeeded.
C6_Witness ==
    /\ Returned("Wait")
    /\ ~cancelOnErr
    /\ Cardinality(Failing) = 1
    /\ \E i \in 1..Len(wk) : wk[i].f.kind = "ok"
    /\ ret.errKind = "list"
    /\ Len(ret.errs) = 1

\* C7 as stated: without cancel-on-error, the entries of the returned list
\* are in the order in which the failing operations completed.
C7_ErrorsInCompletionOrder ==
    (Returned("Wait") /\ ~cancelOnErr /\ ret.errKind = "list") =>
        ret.errs = ErrsByCompletion

\* C7 as amended: without cancel-on-error, the error of a failing operation
\* queued earlier is listed before the error of a failing operation queued
\* later, also when the later one completed first.
C7_ErrorsInSubmissionOrder ==
    (Returned("Wait") /\ ~cancelOnErr /\ ret.errKind = "list") =>
        \A i, j \in Failing :
            i < j =>
                \E p, q \in 1..Len(ret.errs) :
                    /\ p < q
                    /\ ret.errs[p] = wk[i].Err
                    /\ ret.errs[q] = wk[j].Err

\* Wait returned a list of two errors that is not in completion order.
C7_Witness ==
    /\ Returned("Wait")
    /\ ~cancelOnErr
    /\ ret.errKind = "list"
    /\ Len(ret.errs) = 2
    /\ ret.errs # ErrsByCompletion

\* C8: without cancel-on-error, the returned list is the list of the errors
\* of the failing operations in ascending submission index.
C8_ErrorsAscendingIndex ==
    (Returned("Wait") /\ ~cancelOnErr /\ ret.errKind = "list") =>
        ret.errs = ErrsBySubmission

\* The first two operations failed, the second completed first, and the
\* returned list starts with the error of the first.
C8_Witness ==
    /\ Returned("Wait")
    /\ ~cancelOnErr
    /\ Len(wk) >= 2
    /\ Len(ret.errs) = 2
    /\ wk[1].f.kind = "err"
    /\ wk[2].f.kind = "err"
    /\ recvd[1].i = 2
    /\ ret.errs[1] = wk[1].f.err
    /\ ret.errs[2] = wk[2].f.err

\* C9: Wait returns either a non-nil slice and a nil error, or a nil slice and
\* a non-nil error.
C9_ValuesOrError ==
    Returned("Wait") =>
        \/ ~ret.vsNil /\ ret.errKind = "nil"
        \/ ret.vsNil /\ ret.errKind # "nil" /\ ret.errs # << >>

\* Wait returned a nil slice although an operation of the batch had returned
\* its value before another one failed.
C9_Witness ==
    /\ Returned("Wait")
    /\ ret.vsNil
    /\ ret.errKind # "nil"
    /\ Len(recvd) >= 2
    /\ recvd[1].Err = NilErr
    /\ recvd[2].Err # NilErr

\* C10: WaitLax returns N results for a batch of N operations, and result i
\* holds the value and the error the i-th queued operation returned.
C10_LaxResultPerOperation ==
    Returned("WaitLax") =>
        /\ Len(ret.rs) = Len(wk)
        /\ \A i \in 1..Len(wk) :
            /\ wk[i].st \in {"defer", "exit"}
            /\ ret.rs[i].Value = wk[i].Value
            /\ ret.rs[i].Err = wk[i].Err

\* WaitLax returned the results of a batch whose first operation failed and
\* whose second operation succeeded and completed first.
C10_Witness ==
    /\ Returned("WaitLax")
    /\ Len(wk) >= 2
    /\ wk[1].f.kind = "err"
    /\ wk[2].f.kind = "ok"
    /\ recvd[1].i = 2
    /\ ret.rs[1].Err = wk[1].f.err
    /\ ret.rs[2].Value = wk[2].f.val

\* C11: while a WaitLax batch is running, the context of the operations is
\* cancelled only by the caller's cancellation or by the deadline, never by an
\* operation's error, whatever the cancel-on-error setting.
C11_LaxNeverCancelsSiblings ==
    [][(pc = "wait" /\ pc' = "wait" /\ ph' # "end" /\ lax /\ runCtx'.err # runCtx.err) =>
           (ctx' # ctx \/ runCtx'.err = DeadlineExceeded)]_vars

\* With cancel-on-error set, WaitLax has received an error while a sibling is
\* still running, and the siblings' context is not cancelled.
C11_Witness ==
    /\ pc = "wait"
    /\ lax
    /\ cancelOnErr
    /\ firstErr # NilErr
    /\ runCtx.err = NilErr
    /\ \E i \in 1..Len(wk) : wk[i].st = "run"

\* C12: the queue holds exactly the operations queued since the last return
\* of Wait/WaitLax, until the wait that runs them clears it; a wait launches
\* these operations and no other, each once and in queue order; when it
\* returns all of them have been run and the queue is empty. (Inside a call
\* of Queue, between the store of the grown slice and the write of its new
\* element, the queue is these operations and the element still to be
\* written.)
C12_QueuedOperationsRunOnce ==
    [][/\ funcs' = IF ph' = "end" THEN << >>
                   ELSE IF pc' = "elem" THEN Append(queued', NilFn)
                   ELSE queued'
       /\ pc' = "wait" =>
            /\ Len(wk') <= Len(queued')
            /\ \A i \in 1..Len(wk') : wk'[i].f = queued'[i]
       /\ (pc = "wait" /\ pc' = "idle") =>
            /\ funcs' = << >>
            /\ Len(wk) = Len(queued)
            /\ \A i \in 1..Len(wk) : wk[i].st \in {"defer", "exit"}]_vars

\* A second Wait returned the value of the one operation queued after the
\* first wait, which had run an operation too, and the queue is empty again.
C12_Witness ==
    /\ Returned("Wait")
    /\ nWaits = 2
    /\ late > 0
    /\ Len(wk) = 1
    /\ ret.vs = <<wk[1].f.val>>
    /\ wk[1].f.kind = "ok"
    /\ funcs = << >>

\* An operation of the batch returned the deadline error of its context: the
\* timeout elapsed before that operation had finished.
DeadlineObserved ==
    \E i \in 1..Len(wk) : wk[i].Err = DeadlineExceeded

\* The first error wait received, NilErr when it received none.
FirstReceivedErr ==
    LET S == {k \in 1..Len(recvd) : recvd[k].Err # NilErr} IN
    IF S = {} THEN NilErr
    ELSE recvd[CHOOSE k \in S : \A j \in S : k <= j].Err

\* C13 as stated: when the timeout elapsed before an operation had finished,
\* Wait returns a nil slice and context.DeadlineExceeded.
C13_WaitReturnsDeadlineExceeded ==
    (Returned("Wait") /\ DeadlineObserved) =>
        /\ ret.vsNil
        /\ ret.errKind = "single"
        /\ ret.errs = <<DeadlineExceeded>>

\* C13: the deadline reaches Wait only as the error of the operations. When
\* an operation returned the deadline error, Wait returns a nil slice and,
\* with cancel-on-error, the first error it received, which is the deadline
\* error when no operation failed otherwise; without cancel-on-error, a list
\* that holds the deadline error. When no operation returned an error, Wait
\* returns the values although the deadline has passed.
C13_DeadlineSurfacesAsOperationError ==
    /\ (Returned("Wait") /\ DeadlineObserved) =>
        /\ ret.vsNil
        /\ cancelOnErr =>
            /\ ret.errKind = "single"
            /\ ret.errs = <<FirstReceivedErr>>
            /\ (\A i \in 1..Len(wk) : wk[i].f.kind # "err") =>
                    ret.errs = <<DeadlineExceeded>>
        /\ ~cancelOnErr =>
            /\ ret.errKind = "list"
            /\ \E k \in 1..Len(ret.errs) : ret.errs[k] = DeadlineExceeded
    /\ (Returned("Wait") /\ runCtx.err = DeadlineExceeded
            /\ \A i \in 1..Len(wk) : wk[i].Err = NilErr) =>
        /\ ~ret.vsNil
        /\ ret.errKind = "nil"

\* As in TestGroupTimeout: cancel-on-error and a timeout are set, the one
\* operation returned the error of its context once the timeout had elapsed,
\* and Wait returned that error and a nil slice.
C13_Witness ==
    /\ Returned("Wait")
    /\ cancelOnErr
    /\ timeout > 0
    /\ Len(wk) = 1
    /\ wk[1].f.kind = "ctx"
    /\ wk[1].Err = DeadlineExceeded
    /\ ret.vsNil
    /\ ret.errs = <<DeadlineExceeded>>

\* The phases of wait in which the goroutines of the batch exist and the
\* queue still holds their operations.
BatchPhases == {"launch", "stuck", "test", "recv", "clear"}

\* C14: with locking enabled, and while no Lock or Unlock has found it
\* disabled, no step taken while Wait/WaitLax is in progress changes the
\* configuration or the operations of the running batch, and only the wait
\* itself changes the queue, by clearing it at its end; a call of another
\* goroutine issued meanwhile stays at its Lock, makes its assignment only in
\* a step taken when no wait is in progress, and a Queue call then appends its
\* operation to the queue as it is: an element to the slice, and then the
\* operation as that element.
C14_BlockedUntilWaitReturns ==
    [][(~disabled /\ ~sawDisabled) =>
       /\ pc = "wait" =>
            /\ mu
            /\ ow.ph = "none"
            /\ cancelOnErr' = cancelOnErr
            /\ timeout' = timeout
            /\ semCh.cap' = semCh.cap
            /\ funcs' = IF ph = "clear" /\ ph' = "end" THEN << >> ELSE funcs
            /\ ph \in BatchPhases =>
                /\ Len(wk') = Len(wk)
                /\ \A i \in 1..Len(wk) : wk'[i].f = wk[i].f
                /\ Len(wk) = N
            /\ Len(waiting') >= Len(waiting)
            /\ \A k \in 1..Len(waiting) :
                /\ waiting[k].st = "lock"
                /\ waiting'[k] = waiting[k]
       /\ \A k \in 1..Len(waiting) :
            /\ ( /\ Len(waiting') = Len(waiting)
                 /\ waiting[k].m = "Queue"
                 /\ waiting[k].st = "append"
                 /\ waiting'[k].st = "elem" ) =>
                   /\ pc # "wait"
                   /\ funcs' = Append(funcs, NilFn)
            /\ ( /\ Len(waiting') = Len(waiting)
                 /\ waiting[k].m = "Queue"
                 /\ waiting[k].st = "elem"
                 /\ waiting'[k].st = "unlock" ) =>
                   /\ pc # "wait"
                   /\ funcs # << >>
                   /\ funcs[Len(funcs)] = NilFn
                   /\ funcs' = Append(SubSeq(funcs, 1, Len(funcs) - 1),
                                      waiting[k].f)]_vars

\* The operation another goroutine queued during a first wait, with locking
\* enabled throughout, is after the return of that wait the one operation of
\* the batch a second wait runs.
C14_Witness ==
    /\ ~disabled
    /\ ~sawDisabled
    /\ pc = "wait"
    /\ nWaits = 2
    /\ nOther = 1
    /\ funcs = <<Ok(0)>>
    /\ Len(wk) = 1
    /\ wk[1].f = Ok(0)
    /\ wk[1].st = "run"
    /\ late > 0

\* C15: during a wait, once the caller's context is cancelled the context the
\* operations run with is cancelled too, whether it was derived with a
\* timeout, with a cancel function, or is the caller's context itself.
C15_CallerCancellationReachesOperations ==
    (pc = "wait" /\ ctx # NilErr) => runCtx.err # NilErr

\* The caller cancelled its context during a wait with a timeout set, and an
\* operation that waits for its context is still running under a context
\* that now reports the cancellation.
C15_Witness ==
    /\ pc = "wait"
    /\ ctx = Canceled
    /\ runCtx.kind = "timeout"
    /\ runCtx.err = Canceled
    /\ \E i \in 1..Len(wk) : wk[i].st = "run" /\ wk[i].f.kind = "ctx"

\* The call of package progress has returned to its caller.
ReturnedFrom(name) == rpc = "returned" /\ opts.name = name

\* C16: in a call of Run/RunT, fn begins only after the tracker's Start, and
\* once the call has returned the tracker's Stop has been called and the
\* tracker is not active, whatever made the call return.
C16_StartBeforeFnStopByReturn ==
    opts.name = "RunT" =>
        /\ \A k \in 1..Len(gs) : gs[k].st # "new" => gs[k].afterStart
        /\ rpc = "returned" =>
            /\ tracker.starts = 1
            /\ tracker.stops = 1
            /\ ~tracker.active

\* RunT returned the deadline error while fn, begun after Start, is still
\* waiting for its context, and the tracker is stopped.
C16_Witness ==
    /\ ReturnedFrom("RunT")
    /\ out.errs = <<DeadlineExceeded>>
    /\ Len(gs) = 1
    /\ gs[1].st = "run"
    /\ gs[1].afterStart
    /\ tracker.stops = 1
    /\ ~tracker.active

\* C17: RunParallel/RunParallelT with Count = 0 returns a nil slice and a nil
\* error, and no goroutine that would call fn ever exists.
C17_ZeroCountRunsNothing ==
    (opts.name = "RunParallelT" /\ opts.Count = 0) =>
        /\ rpc = "returned"
        /\ out.tNil
        /\ out.t = << >>
        /\ out.errKind = "nil"
        /\ gs = << >>

\* RunParallelT was called with Count = 0 and CancelOnError set, and returned
\* nil, nil.
C17_Witness ==
    /\ ReturnedFrom("RunParallelT")
    /\ opts.Count = 0
    /\ opts.CancelOnError
    /\ out.tNil
    /\ out.errKind = "nil"

\* C18 as stated: with Count = 0 the tracker has seen one Start and one Stop
\* when RunParallel returns.
C18_ZeroCountStartsAndStops ==
    (ReturnedFrom("RunParallelT") /\ opts.Count = 0) =>
        /\ tracker.starts = 1
        /\ tracker.stops = 1

\* C18: with Count = 0 RunParallel returns without calling any method of the
\* tracker: it has seen no Start and no Stop and is not active.
C18_ZeroCountLeavesTrackerAlone ==
    (ReturnedFrom("RunParallelT") /\ opts.Count = 0) =>
        /\ tracker.starts = 0
        /\ tracker.stops = 0
        /\ ~tracker.active

\* RunParallelT was called with Count = 0 and has returned, and the tracker
\* is as newMockTracker made it.
C18_Witness ==
    /\ ReturnedFrom("RunParallelT")
    /\ opts.Count = 0
    /\ tracker = [active |-> FALSE, i |-> 0, starts |-> 0, stops |-> 0]

\* C19: when every invocation succeeded, element i of the slice RunParallelT
\* returns is the value of the invocation with index i.
C19_ValuesByInvocationIndex ==
    (ReturnedFrom("RunParallelT") /\ opts.Count > 0 /\ out.errKind = "nil") =>
        /\ Len(out.t) = opts.Count
        /\ \A k \in 1..Len(out.t) : out.t[k] = gs[k].t

\* C20: when RunParallel has returned, no invocation of fn is running and
\* none is still to begin.
C20_NoInvocationLeftAtReturn ==
    ReturnedFrom("RunParallelT") =>
        \A k \in 1..Len(gs) : gs[k].st \notin {"new", "run"}

\* RunParallelT returned after its second loop had received all Count
\* results: every invocation of fn had completed.
ReturnedAfterAll ==
    ReturnedFrom("RunParallelT") /\ opts.Count > 0 /\ received = opts.Count

\* C21: when RunParallel returns after all Count invocations completed, the
\* tracker has been incremented Count times, every Inc before the Stop.
C21_IncrementedCountTimesAtStop ==
    ReturnedAfterAll => tracker.i = opts.Count

\* The deadline of the call passed while an invocation of fn was running,
\* and every invocation waits for its context and then returns a nil error.
DeadlineWhileQuietFnRuns ==
    /\ tctx.err = DeadlineExceeded
    /\ \A k \in 1..Len(fns) : fns[k] = Quiet
    /\ \E k \in 1..Len(gs) : gs[k].st # "new" /\ gs[k].ctxAtBegin = NilErr

\* C22: when the timeout elapsed while fn was running, Run and RunParallel
\* return context.DeadlineExceeded although fn returns a nil error once it
\* has seen its context cancelled.
C22_DeadlineErrorWhenFnReturnsNil ==
    (rpc = "returned" /\ opts.name \in {"RunT", "RunParallelT"}
        /\ DeadlineWhileQuietFnRuns) =>
            /\ out.errKind = "single"
            /\ out.errs = <<DeadlineExceeded>>

\* The first loop of RunParallelT can send to semCh, or is over, so that the
\* second loop can take `case <-ctx.Done()` or the function can return.
CallerCanProceed ==
    \/ Len(gs) < opts.Count /\ semLen < opts.Concurrency
    \/ Len(gs) = opts.Count

\* A goroutine that holds a token of semCh is past fn, or is in an fn that
\* returns once its context is done.
TokenWillBeReleased ==
    \E k \in 1..Len(gs) :
        \/ gs[k].st \in {"sent", "loaded", "inc"}
        \/ gs[k].st \in {"new", "run"} /\ gs[k].f.kind # "never"

\* C23: once the timeout of RunParallel has elapsed the call is never stuck:
\* it can go on towards its return, or a goroutine is about to free the slot
\* it waits for, even when invocations of fn never return.
C23_NeverStuckAfterTimeout ==
    (rpc = "run" /\ opts.name = "RunParallelT" /\ tctx.err # NilErr) =>
        CallerCanProceed \/ TokenWillBeReleased

\* The number of k with es[k] = e.
Occurrences(es, e) == Cardinality({k \in 1..Len(es) : es[k] = e})

\* The errors the invocations of the call returned.
FnErrs == [k \in 1..Len(gs) |-> gs[k].err]

\* C24 as stated: with CancelOnError false, whenever RunParallel returns
\* after it has received the error of a failing invocation, it returns a
\* list that contains every error it received.
C24_ListOfEveryFailure ==
    (ReturnedFrom("RunParallelT") /\ ~opts.CancelOnError /\ errs # << >>) =>
        /\ out.errKind = "list"
        /\ \A k \in 1..Len(errs) : Occurrences(out.errs, errs[k]) >= 1

\* C24, amended: with CancelOnError false an error never cancels the context
\* of the other invocations; when RunParallel returns after its Count results
\* with at least one failure, it returns a nil slice and a list with the
\* error of every failing invocation, once each; and when it returns before
\* its Count results, because the timeout elapsed or the caller cancelled, it
\* returns a nil slice and the error of its context alone, whatever
\* invocations have failed.
C24_ListOfEveryFailureAfterAllResults ==
    /\ (rpc = "run" /\ opts.name = "RunParallelT" /\ ~opts.CancelOnError
            /\ tctx.err = Canceled) => parent = Canceled
    /\ ( /\ ReturnedFrom("RunParallelT")
         /\ opts.Count > 0
         /\ ~opts.CancelOnError
         /\ received < opts.Count ) =>
            /\ out.tNil
            /\ out.errKind = "single"
            /\ out.errs = <<tctx.err>>
            /\ tctx.err \in {Canceled, DeadlineExceeded}
    /\ (ReturnedAfterAll /\ ~opts.CancelOnError) =>
        IF \E k \in 1..Len(gs) : gs[k].err # NilErr
        THEN /\ out.tNil
             /\ out.errKind = "list"
             /\ Len(out.errs) = Len(gs) - Occurrences(FnErrs, NilErr)
             /\ \A k \in 1..Len(gs) : gs[k].err # NilErr =>
                    Occurrences(out.errs, gs[k].err)
                        = Occurrences(FnErrs, gs[k].err)
        ELSE out.errKind = "nil"

\* As in TestRunParallelMultipleErrors: every invocation failed and the list
\* RunParallel returned has Count entries.
C24_Witness ==
    /\ ReturnedAfterAll
    /\ ~opts.CancelOnError
    /\ opts.Count = MaxCount
    /\ \A k \in 1..Len(gs) : gs[k].f.kind = "err"
    /\ out.errKind = "list"
    /\ Len(out.errs) = opts.Count

\* C25: the invocations of fn running at a time are never more than the
\* resolved concurrency, which is at least 1: opts.Concurrency when that is
\* at least 1, and otherwise DefaultConcurrency(), itself at least 1.
C25_RunningWithinConcurrency ==
    /\ (opts.name = "RunParallelT" /\ opts.Count > 0) =>
        /\ opts.Concurrency >= 1
        /\ CountSt(gs, {"run"}) <= opts.Concurrency
        /\ CountSt(gs, {"new", "run", "sent", "loaded", "inc"}) = semLen
        /\ semLen <= opts.Concurrency
    /\ \A c \in -1..MaxConcurrency, cpus \in 0..MaxCPUs :
        /\ DefaultConcurrency(cpus) >= 1
        /\ cpus >= 1 => DefaultConcurrency(cpus) = cpus
        /\ c >= 1 => ResolveConcurrency(c, cpus) = c
        /\ c < 1 => ResolveConcurrency(c, cpus) = DefaultConcurrency(cpus)

\* With Count = 2 and a resolved concurrency of 1, the first invocation is
\* running and the first loop waits for its slot before it starts the second.
C25_Witness ==
    /\ rpc = "run"
    /\ opts.name = "RunParallelT"
    /\ opts.Count = 2
    /\ opts.Concurrency = 1
    /\ Len(gs) = 1
    /\ gs[1].st = "run"
    /\ semLen = 1

\* C26: when Wait/WaitLax has returned, every slot acquired during the call
\* under a cap has been released: no goroutine of the batch still has its
\* deferred function to run, and the semaphore is empty.
C26_SlotsReleasedAtReturn ==
    (pc = "idle" /\ ret.call # "none" /\ semCh.cap > 0) =>
        /\ CountSt(wk, {"defer"}) = 0
        /\ semCh.len = 0

\* The body of every operation of the batch returns: on its own, or at the
\* deadline of the batch when it waits for its context.
BodiesReturn ==
    \A i \in 1..N : funcs[i].kind = "ctx" => runCtx.kind = "timeout"

\* C27: under fair scheduling a Wait/WaitLax whose bodies all return does
\* return, for every N and every cap, also a cap below N.
C27_WaitReturns ==
    [](pc = "wait" /\ BodiesReturn => <>(pc = "idle"))

\* Wait returned the values of two operations run under a cap of 1.
C27_Witness ==
    /\ Returned("Wait")
    /\ semCh.cap = 1
    /\ Len(wk) = 2
    /\ \A i \in 1..Len(wk) : wk[i].f.kind = "ok"
    /\ Len(ret.vs) = 2

\* C28: while wait's first loop has operations left to launch, wait has
\* received no result and has not called cancel: the context the next
\* operation starts with is cancelled only by the caller or by the deadline.
C28_NoResultBeforeAllLaunched ==
    (pc = "wait" /\ li < N) =>
        /\ recvd = << >>
        /\ firstErr = NilErr
        /\ runCtx.err = Canceled => ctx = Canceled

\* In a Wait with cancel-on-error and a cap of 1 the first operation has sent
\* its error, and the second is still to be launched under a context that is
\* not cancelled.
C28_Witness ==
    /\ pc = "wait"
    /\ ~lax
    /\ cancelOnErr
    /\ semCh.cap = 1
    /\ Len(wk) = 2
    /\ li = 1
    /\ wk[1].st \in {"defer", "exit"}
    /\ wk[1].Err # NilErr
    /\ runCtx.err = NilErr

\* C29: whenever the spinner is active, a goroutine of run is alive or about
\* to be started by the Start that made the spinner active.
C29_ActiveSpinnerIsAnimated ==
    active => atSelect + atLock + toGo > 0

\* Stop is at its send to a stopChan that is full.
StopBlocked == smu /\ stopChan = StopChanCap

\* C30: Stop always returns: whenever its send finds stopChan full, a
\* goroutine of run is at its select, or is about to be started and will begin
\* there, and takes the token, so that under fair scheduling the send
\* proceeds; and a Stop on an inactive spinner and a Start on an active
\* spinner change nothing of the spinner.
C30_StopTerminates ==
    /\ [](StopBlocked => atSelect + toGo > 0)
    /\ smu ~> ~smu
    /\ [][(nCalls' # nCalls /\ active' = active) =>
            UNCHANGED <<stopChan, smu, atSelect, atLock, toGo>>]_vars

\* Stop is at its send while stopChan still holds the token of an earlier
\* Stop, and the goroutine of the last Start is at its select.
C30_Witness ==
    /\ StopBlocked
    /\ atSelect = 1
    /\ atLock = 0
    /\ toGo = 0
    /\ ~active

====
